---- MODULE Spec2Model ----
(***************************************************************************)
(* Verification model of the IAPV kinetic simulation core: the vector      *)
(* kernel (common/math_utils.hpp), the flocking layer with its analyzer    *)
(* and pattern detector (crowds/flocking.cpp and flocking.hpp) and the     *)
(* steering behaviors and controller (locomotion/steering_behaviors.cpp    *)
(* and steering_behaviors.hpp).                                            *)
(*                                                                         *)
(* Arithmetic.  The program computes in float.  The model computes in      *)
(* fixed point: a float f is the integer f * FP (FP = 100, two decimals).  *)
(* A unit vector returned by normalized() is kept at the finer scale Unit. *)
(* Every division rounds toward zero and magnitude() rounds up, so that a  *)
(* normalized vector is never longer than 1 in the model.  Comparisons of  *)
(* a magnitude against a bound are made on the squares and are exact.      *)
(* A statement of the form "the magnitude is exactly m" is therefore       *)
(* checked as "the magnitude is in [m - 0.05, m]".                         *)
(***************************************************************************)
EXTENDS Integers, Sequences, FiniteSets, TLC

VARIABLES
    boids,      \* CrowdSimulation::boids_ : index -> [position, velocity, neighbors]
    pc,         \* position inside CrowdSimulation::update: idle, neighbors, update, boundary
    idx,        \* loop index of the running loop of CrowdSimulation::update
    dt,         \* the deltaTime argument of the running tick, a rational [num, den]
    ticks,      \* number of CrowdSimulation::update calls started
    assigned,   \* history: boids whose setNeighbors ran in this tick
    moved,      \* history: boids whose Boid::update ran in this tick
    bounded,    \* history: boids whose applyBoundaryForces ran in this tick
    adjusted,   \* history: boids whose velocity applyBoundaryForces changed in this tick
    last,       \* history: the last Boid::update call: the boid before it and its three forces
    boundary,   \* CrowdSimulation::boundaryMin_ and boundaryMax_ : [min, max]
    contained,  \* history: the last applyBoundaryForces call: the boid before and after it
    agent,      \* SteeringController::agent_ : [id, position, velocity]
    maxSpeed,   \* SteeringController::maxSpeed_
    maxForce,   \* SteeringController::maxForce_
    behaviors,  \* SteeringController::behaviors_ : sequence of behavior records
    calls,      \* number of SteeringController::update calls made
    sets,       \* number of setter calls made on the controller and its behaviors
    applied,    \* history: the last SteeringController::update call
    sepCase,    \* the two placements of a pair of boids whose separation is probed
    sepForce,   \* the separation forces of both boids in both placements
    population, \* the boids handed to EmergentBehaviorDetector and CrowdAnalyzer
    cellSize,   \* the cellSize argument of CrowdAnalyzer::analyzeDensity
    detected,   \* the result of the last detectPattern call with its three metrics
    density,    \* the result of the last analyzeDensity call with the grid it built
    behavior,   \* a steering behavior called on its own, with its member fields
    probed,     \* the agent and neighbors of the last calculate call on behavior
    outcome,    \* the vector the last calculate call on behavior returned
    character,  \* an Agent driven by decision-making: [position, velocity, health, energy]
    idleTimer,  \* the static idleTimer of IdleState::update
    written,    \* history: the last setHealth / setEnergy call and its argument
    fsm,        \* FiniteStateMachine: states_, currentState_, currentStateName_, State objects
    channel,    \* CommunicationChannel: pending messages, inboxes, registered agents
    delivered,  \* history: what the channel placed in inboxes and handed out
    tree,       \* a behavior tree node with its children
    trace,      \* history: the children executed by the execute calls on tree
    world,      \* GridWorld: the walkable cells
    path,       \* the result of the last AStarPathfinder::findPath call
    atTickStart \* history: the boids as they were when the running tick began

crowdVars == <<boids, pc, idx, dt, ticks, assigned, moved, bounded, adjusted, last,
               boundary, contained>>
ctlVars == <<agent, maxSpeed, maxForce, behaviors, calls, sets, applied>>
sepVars == <<sepCase, sepForce>>
queryVars == <<population, cellSize, detected, density>>
behVars == <<behavior, probed, outcome>>
probeVars == <<sepVars, queryVars, behVars>>
dmVars == <<character, idleTimer, written, fsm>>
msgVars == <<channel, delivered>>
btVars == <<tree, trace>>
pathVars == <<world, path>>
lineVars == <<atTickStart>>
moreVars == <<dmVars, msgVars, btVars, pathVars, lineVars>>
vars == <<crowdVars, ctlVars, probeVars, moreVars>>

----------------------------------------------------------------------------
(* Bounds of the model *)

NumBoids == 3
MaxTicks == 2
MaxCalls == 2
MaxSets == 1

----------------------------------------------------------------------------
(* Fixed-point scale *)

FP == 10 * 10
Unit == 10 * FP

\* C++ float division of a by b > 0, rounded toward zero
Div(a, b) == IF a >= 0 THEN a \div b ELSE -((-a) \div b)

RECURSIVE SqrtSearch(_, _, _)
SqrtSearch(n, lo, hi) ==
    IF lo >= hi THEN lo
    ELSE LET mid == (lo + hi + 1) \div 2
         IN  IF mid * mid <= n THEN SqrtSearch(n, mid, hi)
                               ELSE SqrtSearch(n, lo, mid - 1)

\* std::sqrt, rounded up
Sqrt(n) ==
    LET f == SqrtSearch(n, 0, 46340)
    IN  IF f * f = n THEN f ELSE f + 1

----------------------------------------------------------------------------
(* Vector kernel: struct Vector3D *)

Vec(a, b, c) == [x |-> a, y |-> b, z |-> c]

Zero3 == Vec(0, 0, 0)

\* operator+
VAdd(u, v) == Vec(u.x + v.x, u.y + v.y, u.z + v.z)

\* operator-
VSub(u, v) == Vec(u.x - v.x, u.y - v.y, u.z - v.z)

\* operator*(float scalar), the scalar given as the rational num / den
VMul(v, num, den) == Vec(Div(v.x * num, den), Div(v.y * num, den), Div(v.z * num, den))

dot(u, v) == u.x * v.x + u.y * v.y + u.z * v.z

magnitude(v) == Sqrt(dot(v, v))

\* magnitude() > r, magnitude() < r, magnitude() <= r for a fixed-point bound r
MagGT(v, r) == r < 0 \/ dot(v, v) > r * r
MagLT(v, r) == r > 0 /\ dot(v, v) < r * r
MagLE(v, r) == r >= 0 /\ dot(v, v) <= r * r

Abs(a) == IF a >= 0 THEN a ELSE -a

\* normalized() does not depend on the length of v: a short v is taken 10 or 100
\* times longer first, which keeps the rounding of the square root small
Magnified(v) ==
    LET big == \E c \in {v.x, v.y, v.z} : Abs(c) > 20 * FP
        mid == \E c \in {v.x, v.y, v.z} : Abs(c) > 2 * FP
        k == IF big THEN 1 ELSE IF mid THEN 10 ELSE 100
    IN  Vec(v.x * k, v.y * k, v.z * k)

\* normalized(): the unit vector at scale Unit, the zero vector for a zero vector
normalized(v) ==
    LET w == Magnified(v)
        mag == magnitude(w)
    IN  IF mag > 0
        THEN Vec(Div(w.x * Unit, mag), Div(w.y * Unit, mag), Div(w.z * Unit, mag))
        ELSE Zero3

\* n * len for a unit vector n (scale Unit) and a float len: a vector at scale FP
UnitMul(n, len) == Vec(Div(n.x * len, Unit), Div(n.y * len, Unit), Div(n.z * len, Unit))

\* n * (1.0f / distance) for a unit vector n and a distance (scale FP) > 0
UnitDiv(n, distance) ==
    Vec(Div(n.x * FP * FP, Unit * distance),
        Div(n.y * FP * FP, Unit * distance),
        Div(n.z * FP * FP, Unit * distance))

\* v * (1.0f / count)
VDivCount(v, count) == Vec(Div(v.x, count), Div(v.y, count), Div(v.z, count))

----------------------------------------------------------------------------
(* Boid: flocking parameters (flocking.hpp) and forces (flocking.cpp) *)

separationWeightNum == 3
separationWeightDen == 2
alignmentWeightNum == 1
cohesionWeightNum == 1

\* a separation radius as wide as the cohesion radius
WideSeparationRadius == 6 * FP

separationRadius == 2 * FP
alignmentRadius == 4 * FP
cohesionRadius == 6 * FP

BoidSteerLength == 10 * FP
BoidMaxSpeed == 8 * FP

neighborRadius == 10 * FP
boundaryMin == Vec(-50 * FP, -50 * FP, -50 * FP)
boundaryMax == Vec(50 * FP, 50 * FP, 50 * FP)
margin == 5 * FP
forceStrength == 20 * FP

BoidIds == 1 .. NumBoids

\* Agent constructor through Boid::Boid: velocity zero, no neighbors yet
NewBoid(p) == [position |-> p, velocity |-> Zero3, neighbors |-> << >>]

RECURSIVE SeparationLoop(_, _, _, _)
SeparationLoop(bs, i, k, acc) ==
    IF k > Len(bs[i].neighbors) THEN acc
    ELSE LET neighbor == bs[bs[i].neighbors[k]]
             diff == VSub(bs[i].position, neighbor.position)
         IN  IF MagGT(diff, 0) /\ MagLT(diff, separationRadius)
             THEN SeparationLoop(bs, i, k + 1,
                      [steer |-> VAdd(acc.steer, UnitDiv(normalized(diff), magnitude(diff))),
                       count |-> acc.count + 1])
             ELSE SeparationLoop(bs, i, k + 1, acc)

calculateSeparationUnscaled(bs, i) ==
    LET acc == SeparationLoop(bs, i, 1, [steer |-> Zero3, count |-> 0])
    IN  IF acc.count > 0 THEN VDivCount(acc.steer, acc.count) ELSE acc.steer

calculateSeparation(bs, i) ==
    LET acc == SeparationLoop(bs, i, 1, [steer |-> Zero3, count |-> 0])
    IN  IF acc.count > 0
        THEN UnitMul(normalized(VDivCount(acc.steer, acc.count)), BoidSteerLength)
        ELSE acc.steer

RECURSIVE AlignmentLoop(_, _, _, _)
AlignmentLoop(bs, i, k, acc) ==
    IF k > Len(bs[i].neighbors) THEN acc
    ELSE LET neighbor == bs[bs[i].neighbors[k]]
             diff == VSub(bs[i].position, neighbor.position)
         IN  IF MagGT(diff, 0) /\ MagLT(diff, alignmentRadius)
             THEN AlignmentLoop(bs, i, k + 1,
                      [average |-> VAdd(acc.average, neighbor.velocity),
                       count |-> acc.count + 1])
             ELSE AlignmentLoop(bs, i, k + 1, acc)

calculateAlignment(bs, i) ==
    LET acc == AlignmentLoop(bs, i, 1, [average |-> Zero3, count |-> 0])
    IN  IF acc.count > 0
        THEN VSub(UnitMul(normalized(VDivCount(acc.average, acc.count)), BoidSteerLength),
                  bs[i].velocity)
        ELSE Zero3

RECURSIVE CohesionLoop(_, _, _, _)
CohesionLoop(bs, i, k, acc) ==
    IF k > Len(bs[i].neighbors) THEN acc
    ELSE LET neighbor == bs[bs[i].neighbors[k]]
             diff == VSub(bs[i].position, neighbor.position)
         IN  IF MagGT(diff, 0) /\ MagLT(diff, cohesionRadius)
             THEN CohesionLoop(bs, i, k + 1,
                      [center |-> VAdd(acc.center, neighbor.position),
                       count |-> acc.count + 1])
             ELSE CohesionLoop(bs, i, k + 1, acc)

calculateCohesionUnguarded(bs, i) ==
    LET acc == CohesionLoop(bs, i, 1, [center |-> Zero3, count |-> 0])
        center == IF acc.count > 0 THEN VDivCount(acc.center, acc.count) ELSE acc.center
        desired == VSub(center, bs[i].position)
    IN  VSub(UnitMul(normalized(desired), BoidSteerLength), bs[i].velocity)

calculateCohesion(bs, i) ==
    LET acc == CohesionLoop(bs, i, 1, [center |-> Zero3, count |-> 0])
    IN  IF acc.count > 0
        THEN LET desired == VSub(VDivCount(acc.center, acc.count), bs[i].position)
             IN  VSub(UnitMul(normalized(desired), BoidSteerLength), bs[i].velocity)
        ELSE Zero3

\* Boid::update, lines 16-21: the weighted sum of the three forces
BoidTotalForce(bs, i) ==
    VAdd(VAdd(VMul(calculateSeparation(bs, i), separationWeightNum, separationWeightDen),
              VMul(calculateAlignment(bs, i), alignmentWeightNum, 1)),
         VMul(calculateCohesion(bs, i), cohesionWeightNum, 1))

\* Boid::update, lines 27-31: the speed limit
LimitSpeedUncapped(v) == v

LimitSpeed(v) ==
    IF MagGT(v, BoidMaxSpeed) THEN UnitMul(normalized(v), BoidMaxSpeed) ELSE v

\* Boid::update with the position integrated before the speed limit is applied
BoidUpdateMovingUncapped(bs, i, d) ==
    LET integrated == VAdd(bs[i].velocity, VMul(BoidTotalForce(bs, i), d.num, d.den))
        newPosition == VAdd(bs[i].position, VMul(integrated, d.num, d.den))
    IN  [bs[i] EXCEPT !.velocity = LimitSpeed(integrated), !.position = newPosition]

\* Boid::update(deltaTime): the boid i of bs after the call; it reads its neighbors'
\* current position and velocity through the Boid* pointers of neighbors_
BoidUpdate(bs, i, d) ==
    LET newVelocity == LimitSpeed(VAdd(bs[i].velocity, VMul(BoidTotalForce(bs, i), d.num, d.den)))
        newPosition == VAdd(bs[i].position, VMul(newVelocity, d.num, d.den))
    IN  [bs[i] EXCEPT !.velocity = newVelocity, !.position = newPosition]

----------------------------------------------------------------------------
(* CrowdSimulation *)

RECURSIVE FindLoop(_, _, _, _)
FindLoop(bs, i, j, neighbors) ==
    IF j > Len(bs) THEN neighbors
    ELSE IF j # i /\ MagLE(VSub(bs[i].position, bs[j].position), neighborRadius)
         THEN FindLoop(bs, i, j + 1, Append(neighbors, j))
         ELSE FindLoop(bs, i, j + 1, neighbors)

RECURSIVE FindLoopForward(_, _, _, _)
FindLoopForward(bs, i, j, neighbors) ==
    IF j > Len(bs) THEN neighbors
    ELSE IF j > i /\ MagLE(VSub(bs[i].position, bs[j].position), neighborRadius)
         THEN FindLoopForward(bs, i, j + 1, Append(neighbors, j))
         ELSE FindLoopForward(bs, i, j + 1, neighbors)

findNeighborsForward(bs, i) == FindLoopForward(bs, i, 1, << >>)

RECURSIVE FindLoopStrict(_, _, _, _)
FindLoopStrict(bs, i, j, neighbors) ==
    IF j > Len(bs) THEN neighbors
    ELSE IF j # i /\ MagLT(VSub(bs[i].position, bs[j].position), neighborRadius)
         THEN FindLoopStrict(bs, i, j + 1, Append(neighbors, j))
         ELSE FindLoopStrict(bs, i, j + 1, neighbors)

findNeighborsStrict(bs, i) == FindLoopStrict(bs, i, 1, << >>)

findNeighbors(bs, i) == FindLoop(bs, i, 1, << >>)

BoundaryAxisInclusive(p, lo, hi) ==
    (IF p <= lo + margin THEN forceStrength ELSE 0)
    - (IF p >= hi - margin THEN forceStrength ELSE 0)

\* one axis of applyBoundaryForces: the component of boundaryForce
BoundaryAxis(p, lo, hi) ==
    (IF p < lo + margin THEN forceStrength ELSE 0)
    - (IF p > hi - margin THEN forceStrength ELSE 0)

boundaryForce(b) ==
    Vec(BoundaryAxis(b.position.x, boundary.min.x, boundary.max.x),
        BoundaryAxis(b.position.y, boundary.min.y, boundary.max.y),
        BoundaryAxis(b.position.z, boundary.min.z, boundary.max.z))

applyBoundaryForcesScaled(b) ==
    IF MagGT(boundaryForce(b), 0)
    THEN [b EXCEPT !.velocity = VAdd(b.velocity, VMul(boundaryForce(b), dt.num, dt.den))]
    ELSE b

\* applyBoundaryForces: velocity + boundaryForce * 0.016f
applyBoundaryForces(b) ==
    IF MagGT(boundaryForce(b), 0)
    THEN [b EXCEPT !.velocity = VAdd(b.velocity, VMul(boundaryForce(b), 16, 1000))]
    ELSE b

\* control flow of CrowdSimulation::update: where the call stands after each step
AfterSetNeighborsInterleaved(i) == [pc |-> "update", idx |-> i]

AfterSetNeighbors(i) ==
    IF i < Len(boids) THEN [pc |-> "neighbors", idx |-> i + 1]
                    ELSE [pc |-> "update", idx |-> 1]

AfterBoidUpdateSkipping(i) ==
    IF i < Len(boids) THEN [pc |-> "update", idx |-> i + 1]
                    ELSE [pc |-> "boundary", idx |-> i]

AfterBoidUpdate(i) == [pc |-> "boundary", idx |-> i]

AfterBoundary(i) ==
    IF i < Len(boids) THEN [pc |-> "update", idx |-> i + 1]
                    ELSE [pc |-> "idle", idx |-> 1]

----------------------------------------------------------------------------
(* EmergentBehaviorDetector.  A level is a float in fixed point at the     *)
(* scale Level, the scale of the dot product of two unit vectors.          *)

Level == Unit * Unit

RECURSIVE VelocitySum(_, _, _)
VelocitySum(bs, k, acc) ==
    IF k > Len(bs) THEN acc ELSE VelocitySum(bs, k + 1, VAdd(acc, bs[k].velocity))

RECURSIVE PositionSum(_, _, _)
PositionSum(bs, k, acc) ==
    IF k > Len(bs) THEN acc ELSE PositionSum(bs, k + 1, VAdd(acc, bs[k].position))

RECURSIVE TotalAlignment(_, _, _, _)
TotalAlignment(bs, avgVelocity, k, total) ==
    IF k > Len(bs) THEN total
    ELSE LET vel == bs[k].velocity
         IN  IF MagGT(vel, 0) /\ MagGT(avgVelocity, 0)
             THEN TotalAlignment(bs, avgVelocity, k + 1,
                      total + Div(dot(normalized(vel), normalized(avgVelocity)) + Level, 2))
             ELSE TotalAlignment(bs, avgVelocity, k + 1, total)

calculateAlignmentLevel(bs) ==
    IF Len(bs) = 0 THEN 0
    ELSE Div(TotalAlignment(bs, VDivCount(VelocitySum(bs, 1, Zero3), Len(bs)), 1, 0), Len(bs))

RECURSIVE DistanceSum(_, _, _, _)
DistanceSum(bs, center, k, acc) ==
    IF k > Len(bs) THEN acc
    ELSE DistanceSum(bs, center, k + 1, acc + magnitude(VSub(bs[k].position, center)))

calculateCohesionLevelUnnormalized(bs) ==
    IF Len(bs) = 0 THEN 0
    ELSE LET center == VDivCount(PositionSum(bs, 1, Zero3), Len(bs))
             avgDistance == Div(DistanceSum(bs, center, 1, 0), Len(bs))
         IN  Level + Div(Level, 10 * FP) * avgDistance

\* 1.0f / (1.0f + avgDistance * 0.1f)
calculateCohesionLevel(bs) ==
    IF Len(bs) = 0 THEN 0
    ELSE LET center == VDivCount(PositionSum(bs, 1, Zero3), Len(bs))
             avgDistance == Div(DistanceSum(bs, center, 1, 0), Len(bs))
         IN  Div(Level * 10 * FP, 10 * FP + avgDistance)

RECURSIVE SpeedSum(_, _, _)
SpeedSum(bs, k, acc) ==
    IF k > Len(bs) THEN acc ELSE SpeedSum(bs, k + 1, acc + magnitude(bs[k].velocity))

RECURSIVE SquaredDeviationSum(_, _, _, _)
SquaredDeviationSum(bs, avgSpeed, k, acc) ==
    IF k > Len(bs) THEN acc
    ELSE LET speed == magnitude(bs[k].velocity)
         IN  SquaredDeviationSum(bs, avgSpeed, k + 1,
                                 acc + (speed - avgSpeed) * (speed - avgSpeed))

\* std::sqrt(variance) / (avgSpeed + 0.1f)
calculateVelocityVariance(bs) ==
    IF Len(bs) = 0 THEN 0
    ELSE LET avgSpeed == Div(SpeedSum(bs, 1, 0), Len(bs))
             variance == Div(SquaredDeviationSum(bs, avgSpeed, 1, 0), Len(bs))
         IN  Div(Sqrt(variance) * Level, avgSpeed + FP \div 10)

\* the fraction tenths / 10 as a level
Tenths(tenths) == (tenths * Level) \div 10

\* the rule list of detectPattern on the three levels
PatternOfReordered(alignmentLevel, cohesionLevel, velocityVariance) ==
    IF alignmentLevel > Tenths(8) /\ cohesionLevel > Tenths(7) /\ velocityVariance < Tenths(3)
    THEN "Flocking"
    ELSE IF cohesionLevel < Tenths(4)
    THEN "Splitting"
    ELSE IF alignmentLevel < Tenths(3) /\ velocityVariance > Tenths(7)
    THEN "Milling"
    ELSE IF cohesionLevel > Tenths(8) /\ velocityVariance > Tenths(6)
    THEN "Swarming"
    ELSE "Schooling"

PatternOf(alignmentLevel, cohesionLevel, velocityVariance) ==
    IF alignmentLevel > Tenths(8) /\ cohesionLevel > Tenths(7) /\ velocityVariance < Tenths(3)
    THEN "Flocking"
    ELSE IF cohesionLevel > Tenths(8) /\ velocityVariance > Tenths(6)
    THEN "Swarming"
    ELSE IF alignmentLevel < Tenths(3) /\ velocityVariance > Tenths(7)
    THEN "Milling"
    ELSE IF cohesionLevel < Tenths(4)
    THEN "Splitting"
    ELSE "Schooling"

detectPatternOfPairs(bs) ==
    IF Len(bs) < 2
    THEN [pattern |-> "Unknown", alignmentLevel |-> 0, cohesionLevel |-> 0,
          velocityVariance |-> 0]
    ELSE [pattern |-> PatternOf(calculateAlignmentLevel(bs), calculateCohesionLevel(bs),
                                calculateVelocityVariance(bs)),
          alignmentLevel |-> calculateAlignmentLevel(bs),
          cohesionLevel |-> calculateCohesionLevel(bs),
          velocityVariance |-> calculateVelocityVariance(bs)]

\* detectPattern: the pattern returned, with the three levels it was computed from
\* (no level is computed for fewer than 3 boids)
detectPattern(bs) ==
    IF Len(bs) < 3
    THEN [pattern |-> "Unknown", alignmentLevel |-> 0, cohesionLevel |-> 0,
          velocityVariance |-> 0]
    ELSE [pattern |-> PatternOf(calculateAlignmentLevel(bs), calculateCohesionLevel(bs),
                                calculateVelocityVariance(bs)),
          alignmentLevel |-> calculateAlignmentLevel(bs),
          cohesionLevel |-> calculateCohesionLevel(bs),
          velocityVariance |-> calculateVelocityVariance(bs)]

----------------------------------------------------------------------------
(* CrowdAnalyzer.  A density is a float in fixed point at the scale        *)
(* DensityScale; the grid is indexed from 0 as in the code.                *)

DensityScale == FP * FP

\* the smallest and the largest coordinate of the population on an axis
MinCoordinate(bs, ax) ==
    CHOOSE m \in {bs[k].position[ax] : k \in 1 .. Len(bs)} :
        \A k \in 1 .. Len(bs) : m <= bs[k].position[ax]

MaxCoordinate(bs, ax) ==
    CHOOSE m \in {bs[k].position[ax] : k \in 1 .. Len(bs)} :
        \A k \in 1 .. Len(bs) : m >= bs[k].position[ax]

\* static_cast<int>((maxPos - minPos) / cellSize) + 1
GridSize(bs, ax, cs) == Div(MaxCoordinate(bs, ax) - MinCoordinate(bs, ax), cs) + 1

\* the cell index rounded up instead of truncated
GridIndexRoundedUp(bs, k, ax, cs) ==
    Div(bs[k].position[ax] - MinCoordinate(bs, ax) + cs - 1, cs)

\* static_cast<int>((pos - minPos) / cellSize)
GridIndex(bs, k, ax, cs) == Div(bs[k].position[ax] - MinCoordinate(bs, ax), cs)

\* the counting loop: densityGrid[y][x] is the number of boids of cell (x, y)
DensityGrid(bs, cs) ==
    LET gridWidth == GridSize(bs, "x", cs)
        gridHeight == GridSize(bs, "y", cs)
        gridX == [k \in 1 .. Len(bs) |-> GridIndex(bs, k, "x", cs)]
        gridY == [k \in 1 .. Len(bs) |-> GridIndex(bs, k, "y", cs)]
    IN  [y \in 0 .. gridHeight - 1 |->
            [x \in 0 .. gridWidth - 1 |->
                Cardinality({k \in 1 .. Len(bs) :
                    /\ gridX[k] = x /\ gridY[k] = y
                    /\ gridX[k] >= 0 /\ gridX[k] < gridWidth
                    /\ gridY[k] >= 0 /\ gridY[k] < gridHeight})]]

DensityPerLength(count, cs) == Div(count * DensityScale * FP, cs)

\* densityGrid[y][x] / (cellSize * cellSize)
Density(count, cs) == Div(count * DensityScale * FP * FP, cs * cs)

\* density > bound * 0.8f
ExceedsEightTenths(d, bound) == d * 10 > bound * 8

\* Vector3D hotspot(minPos.x + x * cellSize, minPos.y + y * cellSize, 0)
CellCorner(bs, x, y, cs) ==
    Vec(MinCoordinate(bs, "x") + x * cs, MinCoordinate(bs, "y") + y * cs, 0)

Larger(a, b) == IF a >= b THEN a ELSE b

\* the statistics loop over the cells, row after row; n counts the cells scanned
RECURSIVE ScanLoop(_, _, _, _, _)
ScanLoop(bs, grid, cs, n, data) ==
    LET gridWidth == GridSize(bs, "x", cs)
        gridHeight == GridSize(bs, "y", cs)
    IN  IF n >= gridWidth * gridHeight THEN data
        ELSE LET y == n \div gridWidth
                 x == n % gridWidth
                 d == Density(grid[y][x], cs)
                 maxDensity == Larger(data.maxDensity, d)
             IN  ScanLoop(bs, grid, cs, n + 1,
                     [totalDensity |-> data.totalDensity + d,
                      maxDensity |-> maxDensity,
                      hotspots |-> IF ExceedsEightTenths(d, maxDensity)
                                   THEN Append(data.hotspots, CellCorner(bs, x, y, cs))
                                   ELSE data.hotspots])

\* the same loop marking hotspots against a maximum known beforehand
RECURSIVE ScanLoopAgainst(_, _, _, _, _, _)
ScanLoopAgainst(bs, grid, cs, n, data, finalMax) ==
    LET gridWidth == GridSize(bs, "x", cs)
        gridHeight == GridSize(bs, "y", cs)
    IN  IF n >= gridWidth * gridHeight THEN data
        ELSE LET y == n \div gridWidth
                 x == n % gridWidth
                 d == Density(grid[y][x], cs)
             IN  ScanLoopAgainst(bs, grid, cs, n + 1,
                     [totalDensity |-> data.totalDensity + d,
                      maxDensity |-> Larger(data.maxDensity, d),
                      hotspots |-> IF ExceedsEightTenths(d, finalMax)
                                   THEN Append(data.hotspots, CellCorner(bs, x, y, cs))
                                   ELSE data.hotspots],
                     finalMax)

EmptyDensityData ==
    [called |-> TRUE, averageDensity |-> 0, maxDensity |-> 0, hotspots |-> << >>,
     gridWidth |-> 0, gridHeight |-> 0, densityGrid |-> << >>]

DensityDataOf(bs, cs, data) ==
    [called |-> TRUE,
     averageDensity |-> Div(data.totalDensity, GridSize(bs, "x", cs) * GridSize(bs, "y", cs)),
     maxDensity |-> data.maxDensity,
     hotspots |-> data.hotspots,
     gridWidth |-> GridSize(bs, "x", cs),
     gridHeight |-> GridSize(bs, "y", cs),
     densityGrid |-> DensityGrid(bs, cs)]

NoStatistics == [totalDensity |-> 0, maxDensity |-> 0, hotspots |-> << >>]

analyzeDensityFinalMax(bs, cs) ==
    IF Len(bs) = 0 THEN EmptyDensityData
    ELSE DensityDataOf(bs, cs,
             ScanLoopAgainst(bs, DensityGrid(bs, cs), cs, 0, NoStatistics,
                 ScanLoop(bs, DensityGrid(bs, cs), cs, 0, NoStatistics).maxDensity))

analyzeDensityOfOneCell(bs, cs) ==
    IF Len(bs) = 0
    THEN [EmptyDensityData EXCEPT !.gridWidth = 1, !.gridHeight = 1]
    ELSE DensityDataOf(bs, cs, ScanLoop(bs, DensityGrid(bs, cs), cs, 0, NoStatistics))

\* analyzeDensity(boids, cellSize): the DensityData returned, with the grid it was
\* computed from (no grid is built for an empty population)
analyzeDensity(bs, cs) ==
    IF Len(bs) = 0 THEN EmptyDensityData
    ELSE DensityDataOf(bs, cs, ScanLoop(bs, DensityGrid(bs, cs), cs, 0, NoStatistics))

----------------------------------------------------------------------------
(* Steering behaviors (steering_behaviors.cpp); a behavior is a record      *)
(* [kind, wnum, wden, enabled, point, radius]: weight = wnum / wden, point is *)
(* the target of Seek and the threat of Flee, radius the radius of the rest *)

SteerLength == 10 * FP

SeekCalculate(b, a, neighbors) ==
    VSub(UnitMul(normalized(VSub(b.point, a.position)), SteerLength), a.velocity)

FleeCalculate(b, a, neighbors) ==
    VSub(UnitMul(normalized(VSub(a.position, b.point)), SteerLength), a.velocity)

RECURSIVE SeparationBehaviorLoop(_, _, _, _, _)
SeparationBehaviorLoop(b, a, neighbors, k, acc) ==
    IF k > Len(neighbors) THEN acc
    ELSE LET neighbor == neighbors[k]
             diff == VSub(a.position, neighbor.position)
         IN  IF neighbor.id # a.id /\ MagGT(diff, 0) /\ MagLT(diff, b.radius)
             THEN SeparationBehaviorLoop(b, a, neighbors, k + 1,
                      [steer |-> VAdd(acc.steer, UnitDiv(normalized(diff), magnitude(diff))),
                       count |-> acc.count + 1])
             ELSE SeparationBehaviorLoop(b, a, neighbors, k + 1, acc)

SeparationCalculateUnguarded(b, a, neighbors) ==
    LET acc == SeparationBehaviorLoop(b, a, neighbors, 1, [steer |-> Zero3, count |-> 0])
        mean == IF acc.count > 0 THEN VDivCount(acc.steer, acc.count) ELSE acc.steer
    IN  VSub(UnitMul(normalized(mean), SteerLength), a.velocity)

SeparationCalculate(b, a, neighbors) ==
    LET acc == SeparationBehaviorLoop(b, a, neighbors, 1, [steer |-> Zero3, count |-> 0])
    IN  IF acc.count > 0
        THEN VSub(UnitMul(normalized(VDivCount(acc.steer, acc.count)), SteerLength),
                  a.velocity)
        ELSE acc.steer

RECURSIVE AlignmentBehaviorLoop(_, _, _, _, _)
AlignmentBehaviorLoop(b, a, neighbors, k, acc) ==
    IF k > Len(neighbors) THEN acc
    ELSE LET neighbor == neighbors[k]
             diff == VSub(a.position, neighbor.position)
         IN  IF neighbor.id # a.id /\ MagGT(diff, 0) /\ MagLT(diff, b.radius)
             THEN AlignmentBehaviorLoop(b, a, neighbors, k + 1,
                      [sum |-> VAdd(acc.sum, neighbor.velocity), count |-> acc.count + 1])
             ELSE AlignmentBehaviorLoop(b, a, neighbors, k + 1, acc)

AlignmentCalculate(b, a, neighbors) ==
    LET acc == AlignmentBehaviorLoop(b, a, neighbors, 1, [sum |-> Zero3, count |-> 0])
    IN  IF acc.count > 0
        THEN VSub(UnitMul(normalized(VDivCount(acc.sum, acc.count)), SteerLength),
                  a.velocity)
        ELSE Zero3

RECURSIVE CohesionBehaviorLoop(_, _, _, _, _)
CohesionBehaviorLoop(b, a, neighbors, k, acc) ==
    IF k > Len(neighbors) THEN acc
    ELSE LET neighbor == neighbors[k]
             diff == VSub(a.position, neighbor.position)
         IN  IF neighbor.id # a.id /\ MagGT(diff, 0) /\ MagLT(diff, b.radius)
             THEN CohesionBehaviorLoop(b, a, neighbors, k + 1,
                      [sum |-> VAdd(acc.sum, neighbor.position), count |-> acc.count + 1])
             ELSE CohesionBehaviorLoop(b, a, neighbors, k + 1, acc)

CohesionCalculate(b, a, neighbors) ==
    LET acc == CohesionBehaviorLoop(b, a, neighbors, 1, [sum |-> Zero3, count |-> 0])
    IN  IF acc.count > 0
        THEN LET desired == VSub(VDivCount(acc.sum, acc.count), a.position)
             IN  VSub(UnitMul(normalized(desired), SteerLength), a.velocity)
        ELSE Zero3

\* a Wander behavior also has the fields wanderRadius, wanderDistance, wanderJitter,
\* wanderTarget and draw, the two values Random::range returns in the next call
WanderSpeed == 5 * FP

\* wanderTarget_ after the call: jittered, then put back on the circle
WanderTargetAfter(b) ==
    UnitMul(normalized(VAdd(b.wanderTarget, Vec(b.draw.x, 0, b.draw.z))), b.wanderRadius)

WanderCalculate(b, a, neighbors) ==
    LET heading == IF MagGT(a.velocity, FP \div 10) THEN normalized(a.velocity)
                                                    ELSE Vec(0, 0, Unit)
        circleCenter == VAdd(a.position, UnitMul(heading, b.wanderDistance))
        target == VAdd(circleCenter, WanderTargetAfter(b))
        desired == UnitMul(normalized(VSub(target, a.position)), WanderSpeed)
    IN  VSub(desired, a.velocity)

\* n * (length / distance) for a unit vector n, a float length and a distance > 0
UnitTimesRatio(n, length, distance) ==
    Vec(Div(n.x * length * FP, Unit * distance),
        Div(n.y * length * FP, Unit * distance),
        Div(n.z * length * FP, Unit * distance))

\* an Avoidance behavior also has the field obstacles, a sequence of
\* [position, radius]; the agent radius added to an obstacle's radius
NoAgentRadius == 0 * FP

AgentRadius == 1 * FP

RECURSIVE AvoidanceNeighborLoop(_, _, _, _, _)
AvoidanceNeighborLoop(b, a, neighbors, k, steer) ==
    IF k > Len(neighbors) THEN steer
    ELSE LET neighbor == neighbors[k]
             diff == VSub(a.position, neighbor.position)
         IN  IF neighbor.id # a.id /\ MagGT(diff, 0) /\ MagLT(diff, b.radius)
             THEN AvoidanceNeighborLoop(b, a, neighbors, k + 1,
                      VAdd(steer, UnitTimesRatio(normalized(diff), b.radius, magnitude(diff))))
             ELSE AvoidanceNeighborLoop(b, a, neighbors, k + 1, steer)

\* the loop over obstacles_; at distance 0 the factor is x / 0 = inf, the zero
\* vector times inf is NaN in all three components, and steer stays NaN from then on
RECURSIVE AvoidanceObstacleLoop(_, _, _, _)
AvoidanceObstacleLoop(b, a, k, acc) ==
    IF k > Len(b.obstacles) THEN acc
    ELSE LET obstacle == b.obstacles[k]
             diff == VSub(a.position, obstacle.position)
             totalRadius == obstacle.radius + AgentRadius
         IN  IF MagLT(diff, totalRadius + b.radius)
             THEN IF diff = Zero3
                  THEN AvoidanceObstacleLoop(b, a, k + 1,
                           [acc EXCEPT !.nan = TRUE, !.terms = Append(acc.terms, TRUE)])
                  ELSE AvoidanceObstacleLoop(b, a, k + 1,
                           [acc EXCEPT !.steer =
                               VAdd(acc.steer,
                                    UnitTimesRatio(normalized(diff), totalRadius + b.radius,
                                                   magnitude(diff))),
                                       !.terms = Append(acc.terms, TRUE)])
             ELSE AvoidanceObstacleLoop(b, a, k + 1,
                      [acc EXCEPT !.terms = Append(acc.terms, FALSE)])

\* AvoidanceBehavior::calculate: [steer, nan, terms]; when nan holds the vector
\* returned is (NaN, NaN, NaN) (the test steer.magnitude() > 0 fails on it) and steer
\* has no meaning; terms[k] tells whether obstacle k added a term to steer
AvoidanceCalculate(b, a, neighbors) ==
    LET acc == AvoidanceObstacleLoop(b, a, 1,
                   [steer |-> AvoidanceNeighborLoop(b, a, neighbors, 1, Zero3), nan |-> FALSE,
                    terms |-> << >>])
    IN  IF acc.nan THEN [acc EXCEPT !.steer = Zero3]
        ELSE IF MagGT(acc.steer, 0)
             THEN [acc EXCEPT !.steer =
                       VSub(UnitMul(normalized(acc.steer), SteerLength), a.velocity)]
             ELSE acc

\* the virtual call behavior->calculate(agent_, neighbors)
calculate(b, a, neighbors) ==
    CASE b.kind = "Seek" -> SeekCalculate(b, a, neighbors)
      [] b.kind = "Flee" -> FleeCalculate(b, a, neighbors)
      [] b.kind = "Wander" -> WanderCalculate(b, a, neighbors)
      [] b.kind = "Separation" -> SeparationCalculate(b, a, neighbors)
      [] b.kind = "Alignment" -> AlignmentCalculate(b, a, neighbors)
      [] b.kind = "Cohesion" -> CohesionCalculate(b, a, neighbors)
      [] b.kind = "Avoidance" -> AvoidanceCalculate(b, a, neighbors).steer

\* the vector behavior->calculate(agent_, neighbors) returns is (NaN, NaN, NaN)
calculateIsNaN(b, a, neighbors) ==
    b.kind = "Avoidance" /\ AvoidanceCalculate(b, a, neighbors).nan

\* which of the obstacles of the behavior added a repulsion term in the call
calculateTerms(b, a, neighbors) ==
    IF b.kind = "Avoidance" THEN AvoidanceCalculate(b, a, neighbors).terms ELSE << >>

\* the member fields of the behavior after the call: Wander moves its wanderTarget_
AfterCalculate(b) ==
    IF b.kind = "Wander" THEN [b EXCEPT !.wanderTarget = WanderTargetAfter(b)] ELSE b

----------------------------------------------------------------------------
(* SteeringController *)

truncateNothing(vector, maxLength) == vector

\* SteeringController::truncate
truncate(vector, maxLength) ==
    IF MagGT(vector, maxLength) THEN UnitMul(normalized(vector), maxLength) ELSE vector

RECURSIVE TotalForceLoopAll(_, _, _, _, _)
TotalForceLoopAll(bhs, a, neighbors, k, totalForce) ==
    IF k > Len(bhs) THEN totalForce
    ELSE TotalForceLoopAll(bhs, a, neighbors, k + 1,
             VAdd(totalForce, VMul(calculate(bhs[k], a, neighbors), bhs[k].wnum, bhs[k].wden)))

\* SteeringController::update, lines 175-182: the loop over behaviors_
RECURSIVE TotalForceLoop(_, _, _, _, _)
TotalForceLoop(bhs, a, neighbors, k, totalForce) ==
    IF k > Len(bhs) THEN totalForce
    ELSE IF bhs[k].enabled
         THEN TotalForceLoop(bhs, a, neighbors, k + 1,
                  VAdd(totalForce,
                       VMul(calculate(bhs[k], a, neighbors), bhs[k].wnum, bhs[k].wden)))
         ELSE TotalForceLoop(bhs, a, neighbors, k + 1, totalForce)

totalForceOfAll(bhs, a, neighbors) == TotalForceLoopAll(bhs, a, neighbors, 1, Zero3)

totalForceOf(bhs, a, neighbors) == TotalForceLoop(bhs, a, neighbors, 1, Zero3)

\* SteeringController::update(deltaTime, neighbors): everything the call computes
ControllerUpdate(bhs, a, neighbors, d, mSpeed, mForce) ==
    LET sum == totalForceOf(bhs, a, neighbors)
        force == truncate(sum, mForce)
        raw == VAdd(a.velocity, VMul(force, d.num, d.den))
        newVelocity == truncate(raw, mSpeed)
        newPosition == VAdd(a.position, VMul(newVelocity, d.num, d.den))
    IN  [agent |-> [a EXCEPT !.velocity = newVelocity, !.position = newPosition],
         force |-> force, raw |-> raw]

----------------------------------------------------------------------------
(* Inputs of the model *)

DeltaTimes == {[num |-> 1, den |-> 10], [num |-> 1, den |-> 1], [num |-> 2, den |-> 1]}

Positions ==
    {Vec(-48 * FP, 0, 0), Vec(-48 * FP, 5 * FP, 0), Vec(-47 * FP, 0, 0),
     Vec(-38 * FP, 0, 0), Vec(-20 * FP, 47 * FP, 0)}

\* the agent a controller steers, as constructed by Agent::Agent
Steered == [id |-> 0, position |-> Zero3, velocity |-> Zero3]

\* agents that may be passed to SteeringController::update as neighbors
Other1 == [id |-> 1, position |-> Vec(1 * FP, 0, 0), velocity |-> Vec(3 * FP, 0, 0)]
Other2 == [id |-> 2, position |-> Vec(0, 2 * FP, 2 * FP), velocity |-> Vec(0, -4 * FP, 3 * FP)]

Behavior(kind, wnum, wden, point, radius) ==
    [kind |-> kind, wnum |-> wnum, wden |-> wden, enabled |-> TRUE,
     point |-> point, radius |-> radius]

\* the behavior lists a controller is assembled with (addBehavior), default radii
BehaviorLists ==
    {<< >>,
     <<Behavior("Seek", 1, 1, Vec(10 * FP, 0, 10 * FP), 0)>>,
     <<Behavior("Seek", 1, 4, Vec(10 * FP, 0, 10 * FP), 0),
       Behavior("Separation", 1, 1, Zero3, 3 * FP)>>,
     <<Behavior("Flee", 1, 1, Vec(0, 3 * FP, 0), 0),
       Behavior("Alignment", 1, 4, Zero3, 5 * FP)>>,
     <<Behavior("Cohesion", 1, 1, Zero3, 8 * FP),
       Behavior("Separation", 2, 1, Zero3, 3 * FP)>>}

CtlDeltaTimes == {[num |-> 1, den |-> 5], [num |-> 1, den |-> 1]}

\* the neighbors argument of an update call; the steered agent may be in the list
NeighborLists(a) == {<< >>, <<Other1>>, <<a, Other1, Other2>>}

MaxSpeeds == {0, 3 * FP}
MaxForces == {0, 20 * FP}

\* offsets of the second boid of a probed pair from the first
Offsets ==
    {Vec(FP \div 2, 0, 0), Vec(FP, 0, 0), Vec(0, (3 * FP) \div 2, 0),
     Vec(FP, FP, 0), Vec((3 * FP) \div 5, 0, (4 * FP) \div 5), Vec(0, 1 - 2 * FP, 0),
     Vec(-(FP \div 4), FP \div 4, FP \div 4), Vec(2 * FP, 0, 0)}

----------------------------------------------------------------------------
(* The parts of the state, each idle unless its specification runs it *)

NoUpdate ==
    [before |-> NewBoid(Zero3), separation |-> Zero3, alignment |-> Zero3, cohesion |-> Zero3]

NoCall == [op |-> "none", before |-> Steered, neighbors |-> << >>, dt |-> [num |-> 1, den |-> 1],
           force |-> Zero3, raw |-> Zero3]

CrowdIdle ==
    /\ pc = "idle"
    /\ idx = 1
    /\ dt = [num |-> 1, den |-> 10]
    /\ ticks = 0
    /\ assigned = {}
    /\ moved = {}
    /\ bounded = {}
    /\ adjusted = {}
    /\ last = NoUpdate
    /\ boundary = [min |-> boundaryMin, max |-> boundaryMax]
    /\ contained = [before |-> NewBoid(Zero3), after |-> NewBoid(Zero3),
                     boundary |-> [min |-> boundaryMin, max |-> boundaryMax],
                     dt |-> [num |-> 1, den |-> 10]]

\* SteeringController(agent): maxSpeed = 10.0f, maxForce = 5.0f
CtlIdle ==
    /\ agent = Steered
    /\ maxSpeed = 10 * FP
    /\ maxForce = 5 * FP
    /\ calls = 0
    /\ sets = 0
    /\ applied = NoCall

SepIdle ==
    /\ sepCase = [d1 |-> Zero3, d2 |-> Zero3]
    /\ sepForce = << >>

NoDetection ==
    [pattern |-> "none", alignmentLevel |-> 0, cohesionLevel |-> 0, velocityVariance |-> 0]

NoDensity ==
    [called |-> FALSE, averageDensity |-> 0, maxDensity |-> 0, hotspots |-> << >>,
     gridWidth |-> 0, gridHeight |-> 0, densityGrid |-> << >>]

QueryIdle ==
    /\ population = << >>
    /\ cellSize = 5 * FP
    /\ detected = NoDetection
    /\ density = NoDensity

NoOutcome == [calls |-> 0, value |-> Zero3, nan |-> FALSE, terms |-> << >>]

BehIdle ==
    /\ behavior = << >>
    /\ probed = [agent |-> Steered, neighbors |-> << >>]
    /\ outcome = NoOutcome

ProbesIdle == SepIdle /\ QueryIdle /\ BehIdle

DmIdle ==
    /\ character = << >>
    /\ idleTimer = 0
    /\ written = << >>
    /\ fsm = << >>

MsgIdle ==
    /\ channel = << >>
    /\ delivered = << >>

BtIdle ==
    /\ tree = << >>
    /\ trace = << >>

PathIdle ==
    /\ world = << >>
    /\ path = << >>

LineIdle == atTickStart = << >>

MoreIdle == DmIdle /\ MsgIdle /\ BtIdle /\ PathIdle /\ LineIdle

----------------------------------------------------------------------------
(* The crowd simulation as a state machine *)

Init ==
    /\ boids \in {[i \in BoidIds |-> NewBoid(p[i])] : p \in [BoidIds -> Positions]}
    /\ CrowdIdle
    /\ CtlIdle
    /\ behaviors = << >>
    /\ ProbesIdle
    /\ MoreIdle

\* CrowdSimulation::update(deltaTime) is called
BeginTick(d) ==
    /\ pc = "idle"
    /\ ticks < MaxTicks
    /\ pc' = "neighbors"
    /\ idx' = 1
    /\ dt' = d
    /\ ticks' = ticks + 1
    /\ assigned' = {}
    /\ moved' = {}
    /\ bounded' = {}
    /\ adjusted' = {}
    /\ UNCHANGED <<boids, last, boundary, contained, ctlVars, probeVars, moreVars>>

\* first loop, one iteration: boid->setNeighbors(findNeighbors(boid))
SetNeighborsStep ==
    /\ pc = "neighbors"
    /\ boids' = [boids EXCEPT ![idx].neighbors = findNeighbors(boids, idx)]
    /\ assigned' = assigned \cup {idx}
    /\ pc' = AfterSetNeighbors(idx).pc
    /\ idx' = AfterSetNeighbors(idx).idx
    /\ UNCHANGED <<dt, ticks, moved, bounded, adjusted, last, boundary, contained,
                   ctlVars, probeVars, moreVars>>

\* second loop, first statement: boid->update(deltaTime)
BoidUpdateStep ==
    /\ pc = "update"
    /\ boids' = [boids EXCEPT ![idx] = BoidUpdate(boids, idx, dt)]
    /\ moved' = moved \cup {idx}
    /\ pc' = AfterBoidUpdate(idx).pc
    /\ idx' = AfterBoidUpdate(idx).idx
    /\ last' = [before |-> boids[idx],
                 separation |-> calculateSeparation(boids, idx),
                 alignment |-> calculateAlignment(boids, idx),
                 cohesion |-> calculateCohesion(boids, idx)]
    /\ UNCHANGED <<dt, ticks, assigned, bounded, adjusted, boundary, contained,
                   ctlVars, probeVars, moreVars>>

\* second loop, second statement: applyBoundaryForces(boid)
BoundaryStep ==
    /\ pc = "boundary"
    /\ boids' = [boids EXCEPT ![idx] = applyBoundaryForces(boids[idx])]
    /\ bounded' = bounded \cup {idx}
    /\ adjusted' = IF applyBoundaryForces(boids[idx]) # boids[idx]
                   THEN adjusted \cup {idx} ELSE adjusted
    /\ contained' = [before |-> boids[idx], after |-> applyBoundaryForces(boids[idx]),
                      boundary |-> boundary, dt |-> dt]
    /\ pc' = AfterBoundary(idx).pc
    /\ idx' = AfterBoundary(idx).idx
    /\ UNCHANGED <<dt, ticks, assigned, moved, last, boundary, ctlVars, probeVars, moreVars>>

Next ==
    \/ \E d \in DeltaTimes : BeginTick(d)
    \/ SetNeighborsStep
    \/ BoidUpdateStep
    \/ BoundaryStep

Spec == Init /\ [][Next]_vars

----------------------------------------------------------------------------
(* A crowd of one boid near the faces of the boundary *)

\* positions of the single boid: on, just inside and just outside the margin planes
\* of the default boundary, on a face, outside the boundary, and in the middle
EdgePositions ==
    {Vec(-45 * FP, 0, 0), Vec(0, 45 * FP, 0), Vec(0, 0, -45 * FP),
     Vec(1 - 45 * FP, 0, 0), Vec(-1 - 45 * FP, 0, 0), Vec(0, 45 * FP + 1, 0),
     Vec(-45 * FP, 45 * FP, 0), Vec(-48 * FP, 48 * FP, -50 * FP), Vec(55 * FP, 0, 4 * FP),
     Vec(4 * FP, 4 * FP, 4 * FP), Vec(5 * FP, 3 * FP, 0), Zero3}

\* boundaries passed to setBoundary: the default one again and a box narrower than
\* two margins, in which a position can be within the margin of both faces
Boundaries ==
    {[min |-> boundaryMin, max |-> boundaryMax],
     [min |-> Zero3, max |-> Vec(8 * FP, 8 * FP, 8 * FP)]}

InitOne ==
    /\ boids \in {<<NewBoid(p)>> : p \in EdgePositions}
    /\ CrowdIdle
    /\ CtlIdle
    /\ behaviors = << >>
    /\ ProbesIdle
    /\ MoreIdle

\* CrowdSimulation::setBoundary(min, max), between two ticks
SetBoundary(b) ==
    /\ pc = "idle"
    /\ boundary' = b
    /\ UNCHANGED <<boids, pc, idx, dt, ticks, assigned, moved, bounded, adjusted, last,
                   contained, ctlVars, probeVars, moreVars>>

NextOne ==
    \/ \E d \in DeltaTimes : BeginTick(d)
    \/ SetNeighborsStep
    \/ BoidUpdateStep
    \/ BoundaryStep
    \/ \E b \in Boundaries : SetBoundary(b)

SpecOne == InitOne /\ [][NextOne]_vars

----------------------------------------------------------------------------
(* The steering controller as a state machine *)

InitCtl ==
    /\ boids = << >>
    /\ CrowdIdle
    /\ CtlIdle
    /\ behaviors \in BehaviorLists
    /\ ProbesIdle
    /\ MoreIdle

\* controller.update(deltaTime, neighbors)
CtlUpdate(d, neighbors) ==
    /\ calls < MaxCalls
    /\ agent' = ControllerUpdate(behaviors, agent, neighbors, d, maxSpeed, maxForce).agent
    /\ applied' = [op |-> "update", before |-> agent, neighbors |-> neighbors, dt |-> d,
                   force |-> ControllerUpdate(behaviors, agent, neighbors, d,
                                              maxSpeed, maxForce).force,
                   raw |-> ControllerUpdate(behaviors, agent, neighbors, d,
                                            maxSpeed, maxForce).raw]
    /\ calls' = calls + 1
    /\ UNCHANGED <<maxSpeed, maxForce, behaviors, sets, crowdVars, probeVars, moreVars>>

\* controller.setMaxSpeed(m)
SetMaxSpeed(m) ==
    /\ sets < MaxSets
    /\ maxSpeed' = m
    /\ sets' = sets + 1
    /\ applied' = [applied EXCEPT !.op = "set"]
    /\ UNCHANGED <<agent, maxForce, behaviors, calls, crowdVars, probeVars, moreVars>>

\* controller.setMaxForce(f)
SetMaxForce(f) ==
    /\ sets < MaxSets
    /\ maxForce' = f
    /\ sets' = sets + 1
    /\ applied' = [applied EXCEPT !.op = "set"]
    /\ UNCHANGED <<agent, maxSpeed, behaviors, calls, crowdVars, probeVars, moreVars>>

\* behavior->enabled = !behavior->enabled, the public field of SteeringBehavior
SetEnabled(k) ==
    /\ sets < MaxSets
    /\ k <= Len(behaviors)
    /\ behaviors' = [behaviors EXCEPT ![k].enabled = ~behaviors[k].enabled]
    /\ sets' = sets + 1
    /\ applied' = [applied EXCEPT !.op = "set"]
    /\ UNCHANGED <<agent, maxSpeed, maxForce, calls, crowdVars, probeVars, moreVars>>

NextCtl ==
    \/ \E d \in CtlDeltaTimes : \E neighbors \in NeighborLists(agent) : CtlUpdate(d, neighbors)
    \/ \E m \in MaxSpeeds : SetMaxSpeed(m)
    \/ \E f \in MaxForces : SetMaxForce(f)
    \/ \E k \in 1 .. 2 : SetEnabled(k)

SpecCtl == InitCtl /\ [][NextCtl]_vars

----------------------------------------------------------------------------
(* Boid::calculateSeparation probed on pairs of boids *)

\* two boids, the second at the given offset from the first, after the neighbor
\* rebuild of CrowdSimulation::update
PairAt(offset) ==
    LET bs == <<NewBoid(Vec(3 * FP, -2 * FP, FP)), NewBoid(VAdd(Vec(3 * FP, -2 * FP, FP), offset))>>
    IN  [i \in 1 .. 2 |-> [bs[i] EXCEPT !.neighbors = findNeighbors(bs, i)]]

InitSep ==
    /\ boids = << >>
    /\ CrowdIdle
    /\ CtlIdle
    /\ behaviors = << >>
    /\ sepCase \in {[d1 |-> a, d2 |-> b] : a \in Offsets, b \in Offsets}
    /\ sepForce = << >>
    /\ QueryIdle
    /\ BehIdle
    /\ MoreIdle

\* calculateSeparation of both boids of the pair, in both placements
ProbeSeparation ==
    /\ sepForce = << >>
    /\ sepForce' = <<calculateSeparation(PairAt(sepCase.d1), 1),
                     calculateSeparation(PairAt(sepCase.d1), 2),
                     calculateSeparation(PairAt(sepCase.d2), 1),
                     calculateSeparation(PairAt(sepCase.d2), 2)>>
    /\ UNCHANGED <<sepCase, crowdVars, ctlVars, queryVars, behVars, moreVars>>

NextSep == ProbeSeparation

SpecSep == InitSep /\ [][NextSep]_vars

----------------------------------------------------------------------------
(* EmergentBehaviorDetector and CrowdAnalyzer called on a population *)

MaxPopulation == 4

\* the boids a population is made of: position and velocity
Members ==
    {[position |-> Zero3, velocity |-> Zero3, neighbors |-> << >>],
     [position |-> Vec(0, 6 * FP, 0), velocity |-> Vec(10 * FP, 0, 0), neighbors |-> << >>],
     [position |-> Vec(10 * FP, 0, 30 * FP), velocity |-> Zero3, neighbors |-> << >>],
     [position |-> Vec(-10 * FP, 0, -30 * FP), velocity |-> Vec(10 * FP, 0, 0), neighbors |-> << >>],
     [position |-> Vec(0, 2 * FP, FP), velocity |-> Vec(-6 * FP, 0, 8 * FP), neighbors |-> << >>]}

Populations == UNION {[1 .. n -> Members] : n \in 0 .. MaxPopulation}

CellSizes == {3 * FP, 5 * FP, 100 * FP}

InitQuery ==
    /\ boids = << >>
    /\ CrowdIdle
    /\ CtlIdle
    /\ behaviors = << >>
    /\ SepIdle
    /\ BehIdle
    /\ population \in Populations
    /\ cellSize \in CellSizes
    /\ detected = NoDetection
    /\ density = NoDensity
    /\ MoreIdle

\* EmergentBehaviorDetector().detectPattern(population)
Detect ==
    /\ detected = NoDetection
    /\ detected' = detectPattern(population)
    /\ UNCHANGED <<population, cellSize, density, crowdVars, ctlVars, sepVars, behVars, moreVars>>

\* CrowdAnalyzer::analyzeDensity(population, cellSize)
Analyze ==
    /\ density = NoDensity
    /\ density' = analyzeDensity(population, cellSize)
    /\ UNCHANGED <<population, cellSize, detected, crowdVars, ctlVars, sepVars, behVars, moreVars>>

NextQuery == Detect \/ Analyze

SpecQuery == InitQuery /\ [][NextQuery]_vars

----------------------------------------------------------------------------
(* A steering behavior called on its own *)

MaxProbes == 2
MaxObstacles == 2

\* WanderBehavior(): radius 2.0f, distance 5.0f, jitter 1.0f, wanderTarget_ (0, 0, 1)
NewWander ==
    [kind |-> "Wander", wnum |-> 1, wden |-> 1, enabled |-> TRUE,
     wanderRadius |-> 2 * FP, wanderDistance |-> 5 * FP, wanderJitter |-> 1 * FP,
     wanderTarget |-> Vec(0, 0, 1 * FP), draw |-> [x |-> 0, z |-> 0]]

\* AvoidanceBehavior(): avoidanceRadius 4.0f, no obstacle
NewAvoidance ==
    [kind |-> "Avoidance", wnum |-> 1, wden |-> 1, enabled |-> TRUE,
     radius |-> 4 * FP, obstacles |-> << >>]

\* the seven behaviors as constructed, with the default radii; Seek and Flee are
\* given the point the first of ProbedAgents stands on
NewBehaviors ==
    {Behavior("Seek", 1, 1, Zero3, 0), Behavior("Flee", 1, 1, Zero3, 0), NewWander,
     Behavior("Separation", 1, 1, Zero3, 3 * FP), Behavior("Alignment", 1, 1, Zero3, 5 * FP),
     Behavior("Cohesion", 1, 1, Zero3, 8 * FP), NewAvoidance}

\* the agent the behavior is called for; the second stands where Other1 stands
ProbedAgents ==
    {Steered, [id |-> 0, position |-> Vec(1 * FP, 0, 0), velocity |-> Vec(0, 0, 2 * FP)]}

\* an agent outside every default radius
Other3 == [id |-> 3, position |-> Vec(0, -30 * FP, 0), velocity |-> Vec(0, 5 * FP, 0)]

ProbedNeighborLists(a) == {<< >>, <<Other1>>, <<a, Other3>>, <<Other2, Other1>>}

\* the values Random::range(-wanderJitter_, wanderJitter_) returns in one call
Draws(b) ==
    IF b.kind = "Wander"
    THEN {[x |-> 0, z |-> -b.wanderJitter], [x |-> b.wanderJitter \div 2, z |-> 0],
          [x |-> -b.wanderJitter, z |-> b.wanderJitter \div 4]}
    ELSE {[x |-> 0, z |-> 0]}

\* the obstacles addObstacle is called with
Obstacles ==
    {[position |-> Zero3, radius |-> 1 * FP],
     [position |-> Vec((11 * FP) \div 2, 0, 0), radius |-> 1 * FP],
     [position |-> Vec(0, 20 * FP, 0), radius |-> 2 * FP]}

InitBeh ==
    /\ boids = << >>
    /\ CrowdIdle
    /\ CtlIdle
    /\ behaviors = << >>
    /\ SepIdle
    /\ QueryIdle
    /\ behavior \in NewBehaviors
    /\ probed \in {[agent |-> a, neighbors |-> << >>] : a \in ProbedAgents}
    /\ outcome = NoOutcome
    /\ MoreIdle

\* behavior.calculate(agent, neighbors)
Calculate(neighbors, draw) ==
    /\ outcome.calls < MaxProbes
    /\ LET b == IF behavior.kind = "Wander" THEN [behavior EXCEPT !.draw = draw]
                                            ELSE behavior
       IN  /\ outcome' = [calls |-> outcome.calls + 1,
                          value |-> calculate(b, probed.agent, neighbors),
                          nan |-> calculateIsNaN(b, probed.agent, neighbors),
                          terms |-> calculateTerms(b, probed.agent, neighbors)]
           /\ behavior' = AfterCalculate(b)
    /\ probed' = [probed EXCEPT !.neighbors = neighbors]
    /\ UNCHANGED <<crowdVars, ctlVars, sepVars, queryVars, moreVars>>

\* avoidance.addObstacle(position, radius)
AddObstacle(o) ==
    /\ behavior.kind = "Avoidance"
    /\ Len(behavior.obstacles) < MaxObstacles
    /\ behavior' = [behavior EXCEPT !.obstacles = Append(behavior.obstacles, o)]
    /\ UNCHANGED <<probed, outcome, crowdVars, ctlVars, sepVars, queryVars, moreVars>>

NextBeh ==
    \/ \E neighbors \in ProbedNeighborLists(probed.agent) :
           \E draw \in Draws(behavior) : Calculate(neighbors, draw)
    \/ \E o \in Obstacles : AddObstacle(o)

SpecBeh == InitBeh /\ [][NextBeh]_vars

----------------------------------------------------------------------------
(* The movement loop of CrowdSimulation::update run as a whole over the    *)
(* population bs, the boids taken in the given order                       *)

RECURSIVE MovementPhase(_, _, _, _)
MovementPhase(bs, order, k, d) ==
    IF k > NumBoids THEN bs
    ELSE LET i == order[k]
             updated == [bs EXCEPT ![i] = BoidUpdate(bs, i, d)]
         IN  MovementPhase([updated EXCEPT ![i] = applyBoundaryForces(updated[i])],
                           order, k + 1, d)

Orders == {o \in [BoidIds -> BoidIds] : \A a, b \in BoidIds : a # b => o[a] # o[b]}

VectorOrder == [i \in BoidIds |-> i]

\* b is in the neighbor snapshot of a
InSnapshot(a, b) == \E k \in 1 .. Len(boids[a].neighbors) : boids[a].neighbors[k] = b

\* the neighbor-rebuild loop of this tick has finished and no boid has moved yet
Rebuilt == pc = "update" /\ idx = 1

DistSq(a, b) == dot(VSub(boids[a].position, boids[b].position),
                    VSub(boids[a].position, boids[b].position))

\* 0.32, the velocity change of one containment on one axis
ContainmentStep == Div(forceStrength * 16, 1000)

----------------------------------------------------------------------------
(* Claims *)

\* C1: within one CrowdSimulation::update tick every boid's neighbor snapshot has
\* been assigned before the movement step of any boid runs.
C1_SnapshotsBeforeMovement ==
    /\ moved # {} => assigned = BoidIds
    /\ pc \in {"update", "boundary"} => assigned = BoidIds

C1_Witness == pc = "boundary" /\ moved = {1} /\ assigned = BoidIds

\* C2: the result of the movement phase of a tick is the same for every order in
\* which the boids are processed.
C2_OrderIndependent ==
    Rebuilt => \A o \in Orders :
                   MovementPhase(boids, o, 1, dt) = MovementPhase(boids, VectorOrder, 1, dt)

\* C3 as stated: starting from zero velocity, every boid's speed is at most 8.0 at
\* the end of every tick.
C3_SpeedCapAtEndOfTick ==
    pc = "idle" => \A i \in BoidIds : MagLE(boids[i].velocity, BoidMaxSpeed)

\* C3 as amended: starting from zero velocity, every boid's speed is at most 8.0
\* right after its own Boid::update, and at most 8.0 + 0.32 * sqrt(3) at any time,
\* the end of every tick included.
C3_SpeedCapAfterMovement ==
    /\ pc = "boundary" => MagLE(boids[idx].velocity, BoidMaxSpeed)
    /\ \A i \in BoidIds :
           MagLE(boids[i].velocity,
                 BoidMaxSpeed + Sqrt(3 * ContainmentStep * ContainmentStep))

C3_Witness ==
    pc = "idle" /\ ticks > 0 /\ \E i \in BoidIds : MagGT(boids[i].velocity, BoidMaxSpeed)

\* C4: after the neighbor-rebuild phase the neighbor relation is symmetric.
C4_NeighborSymmetry ==
    pc \in {"update", "boundary"} =>
        \A a, b \in BoidIds : InSnapshot(a, b) <=> InSnapshot(b, a)

C4_Witness ==
    /\ Rebuilt
    /\ \E a, b \in BoidIds : a # b /\ InSnapshot(a, b) /\ InSnapshot(b, a)
    /\ \E a, b \in BoidIds : a # b /\ ~InSnapshot(a, b) /\ ~InSnapshot(b, a)

\* C5 as stated: after the rebuild, B is in A's snapshot iff B is another boid and
\* the pre-tick distance d satisfies 0 < d <= neighborRadius.
C5_SnapshotExcludesCoincident ==
    Rebuilt => \A a, b \in BoidIds :
                   InSnapshot(a, b) <=>
                       (a # b /\ 0 < DistSq(a, b)
                              /\ DistSq(a, b) <= neighborRadius * neighborRadius)

\* C5 as amended: after the rebuild, B is in A's snapshot iff B is another boid and
\* the pre-tick distance d satisfies d <= neighborRadius (d = 0 included); a boid is
\* never its own neighbor.
C5_SnapshotMembership ==
    Rebuilt => \A a, b \in BoidIds :
                   InSnapshot(a, b) <=>
                       (a # b /\ DistSq(a, b) <= neighborRadius * neighborRadius)

C5_Witness ==
    /\ Rebuilt
    /\ \E a, b \in BoidIds : a # b /\ DistSq(a, b) = 0 /\ InSnapshot(a, b)
    /\ \E a, b \in BoidIds : DistSq(a, b) = neighborRadius * neighborRadius /\ InSnapshot(a, b)

\* C6 as stated: the containment adjustment of a boid's velocity is applied only
\* after the movement step of every boid of the population has completed.
C6_ContainmentAfterAllMovement == adjusted # {} => moved = BoidIds

\* C6 as amended: the containment of a boid is applied right after that boid's own
\* movement step and before the movement step of the next boid, so that a boid
\* moves when exactly the boids before it have moved and been contained.
C6_ContainmentFollowsOwnMovement ==
    /\ pc = "update" => moved = 1 .. (idx - 1) /\ bounded = 1 .. (idx - 1)
    /\ pc = "boundary" => moved = 1 .. idx /\ bounded = 1 .. (idx - 1)
    /\ adjusted \subseteq bounded

C6_Witness ==
    pc = "update" /\ idx = 2 /\ 1 \in adjusted /\ InSnapshot(2, 1)
        /\ MagLT(VSub(boids[2].position, boids[1].position), alignmentRadius)
        /\ MagGT(VSub(boids[2].position, boids[1].position), 0)

Tol == (5 * FP) \div 100

cross(u, v) == Vec(u.y * v.z - u.z * v.y, u.z * v.x - u.x * v.z, u.x * v.y - u.y * v.x)

\* f has the direction of s, up to the rounding
SameDirection(f, s) ==
    /\ dot(f, s) > 0
    /\ dot(cross(f, s), cross(f, s)) <= Tol * Tol * dot(s, s)

\* the magnitude of f is len, up to the rounding
HasLength(f, len) ==
    /\ MagLE(f, len)
    /\ len > Tol => MagGT(f, len - Tol)

\* weight * calculate summed over the behaviors of bhs
RECURSIVE WeightedSum(_, _, _)
WeightedSum(bhs, a, neighbors) ==
    IF bhs = << >> THEN Zero3
    ELSE VAdd(VMul(calculate(Head(bhs), a, neighbors), Head(bhs).wnum, Head(bhs).wden),
              WeightedSum(Tail(bhs), a, neighbors))

IsEnabled(b) == b.enabled

C8_AppliedForce ==
    applied.op = "update" =>
        LET sum == WeightedSum(SelectSeq(behaviors, IsEnabled), applied.before,
                               applied.neighbors)
        IN  /\ MagLE(applied.force, maxForce)
            /\ MagLE(sum, maxForce) => applied.force = sum
            /\ MagGT(sum, maxForce) =>
                   /\ HasLength(applied.force, maxForce)
                   /\ maxForce > 0 => SameDirection(applied.force, sum)
            /\ agent.velocity =
                   truncate(VAdd(applied.before.velocity,
                                 VMul(applied.force, applied.dt.num, applied.dt.den)),
                            maxSpeed)

C8_Witness ==
    /\ applied.op = "update"
    /\ maxForce > 0
    /\ MagGT(WeightedSum(SelectSeq(behaviors, IsEnabled), applied.before, applied.neighbors),
             maxForce)
    /\ \E k \in 1 .. Len(behaviors) :
           /\ ~behaviors[k].enabled
           /\ calculate(behaviors[k], applied.before, applied.neighbors) # Zero3

\* the distance of a probed placement lies strictly between 0 and separationRadius
InSeparationRange(offset) == MagGT(offset, 0) /\ MagLT(offset, separationRadius)

\* C10 as stated: for two boids that are each other's only neighbor, the separation
\* force at distance d1 is strictly larger in magnitude than at distance d2 whenever
\* 0 < d1 < d2 < separationRadius.
C10_SeparationStrictlyMonotone ==
    (/\ sepForce # << >>
     /\ InSeparationRange(sepCase.d1) /\ InSeparationRange(sepCase.d2)
     /\ dot(sepCase.d1, sepCase.d1) < dot(sepCase.d2, sepCase.d2)) =>
        /\ dot(sepForce[1], sepForce[1]) > dot(sepForce[3], sepForce[3])
        /\ dot(sepForce[2], sepForce[2]) > dot(sepForce[4], sepForce[4])

\* C10 as amended: for two boids that are each other's only neighbor at a distance
\* d with 0 < d < separationRadius, the separation force of each boid points away
\* from the other and has the fixed magnitude 10.0 whatever d is, so the magnitude
\* at d1 equals the magnitude at d2 for 0 < d1 < d2 < separationRadius.
C10_SeparationFixedMagnitude ==
    sepForce # << >> =>
        /\ InSeparationRange(sepCase.d1) =>
               /\ HasLength(sepForce[1], BoidSteerLength)
               /\ HasLength(sepForce[2], BoidSteerLength)
               /\ SameDirection(sepForce[1], VSub(Zero3, sepCase.d1))
               /\ SameDirection(sepForce[2], sepCase.d1)
        /\ InSeparationRange(sepCase.d2) =>
               /\ HasLength(sepForce[3], BoidSteerLength)
               /\ HasLength(sepForce[4], BoidSteerLength)
               /\ SameDirection(sepForce[3], VSub(Zero3, sepCase.d2))
               /\ SameDirection(sepForce[4], sepCase.d2)

C10_Witness ==
    /\ sepForce # << >>
    /\ InSeparationRange(sepCase.d1) /\ InSeparationRange(sepCase.d2)
    /\ dot(sepCase.d1, sepCase.d1) < dot(sepCase.d2, sepCase.d2)
    /\ dot(sepForce[1], sepForce[1]) = dot(sepForce[3], sepForce[3])
    /\ sepForce[1] # Zero3

----------------------------------------------------------------------------
(* Boundary containment of a single boid *)

Axes == {"x", "y", "z"}

DefaultBoundary == [min |-> boundaryMin, max |-> boundaryMax]

\* the first tick of a crowd of one boid inside the default boundary has finished:
\* the boid had zero velocity, so its movement step left it where it was placed
FirstTickOfOne ==
    Len(boids) = 1 /\ ticks = 1 /\ pc = "idle" /\ contained.boundary = DefaultBoundary

OnMarginPlane(ax) ==
    \/ contained.before.position[ax] = boundaryMin[ax] + margin
    \/ contained.before.position[ax] = boundaryMax[ax] - margin

\* C11 as stated: a single boid with zero velocity placed exactly one margin inside a
\* face has, after one tick, its velocity on that axis changed inward by 0.32.
C11_MarginPlaneContained ==
    FirstTickOfOne =>
        \A ax \in Axes :
            /\ contained.before.position[ax] = boundaryMin[ax] + margin
                   => boids[1].velocity[ax] = ContainmentStep
            /\ contained.before.position[ax] = boundaryMax[ax] - margin
                   => boids[1].velocity[ax] = -ContainmentStep

\* C11: a single boid with zero velocity placed exactly one margin inside a face of
\* the default boundary keeps velocity 0 on that axis after one tick, for every
\* deltaTime; placed closer to the minimum face than the margin it gets +0.32 on
\* that axis, closer to the maximum face than the margin it gets -0.32.
C11_MarginPlaneNotContained ==
    FirstTickOfOne =>
        \A ax \in Axes :
            /\ contained.before.velocity = Zero3
            /\ OnMarginPlane(ax) => boids[1].velocity[ax] = 0
            /\ contained.before.position[ax] < boundaryMin[ax] + margin
                   => boids[1].velocity[ax] = ContainmentStep
            /\ contained.before.position[ax] > boundaryMax[ax] - margin
                   => boids[1].velocity[ax] = -ContainmentStep

C11_Witness ==
    /\ FirstTickOfOne
    /\ dt = [num |-> 1, den |-> 10]
    /\ boids[1].position = Vec(-45 * FP, 0, 0)
    /\ boids[1].velocity = Zero3
    /\ bounded = {1}

\* C12: applyBoundaryForces changes only the velocity, and on each axis by an amount
\* that does not depend on deltaTime: +0.32 when the position is closer than the
\* margin to the minimum face only, -0.32 when closer than the margin to the maximum
\* face only, 0 otherwise; position and neighbor snapshot are left as they were.
C12_ContainmentEffect ==
    /\ contained.after.position = contained.before.position
    /\ contained.after.neighbors = contained.before.neighbors
    /\ \A ax \in Axes :
           LET p == contained.before.position[ax]
               nearMin == p < contained.boundary.min[ax] + margin
               nearMax == p > contained.boundary.max[ax] - margin
               change == contained.after.velocity[ax] - contained.before.velocity[ax]
           IN  /\ nearMin /\ ~nearMax => change = ContainmentStep
               /\ nearMax /\ ~nearMin => change = -ContainmentStep
               /\ nearMin = nearMax => change = 0

C12_Witness ==
    /\ bounded = {1}
    /\ contained.dt = [num |-> 2, den |-> 1]
    /\ contained.boundary = [min |-> Zero3, max |-> Vec(8 * FP, 8 * FP, 8 * FP)]
    /\ contained.before.position.z > 3 * FP
    /\ contained.before.position.z < 5 * FP
    /\ contained.after.velocity.x - contained.before.velocity.x = -ContainmentStep
    /\ contained.after.velocity.y - contained.before.velocity.y = ContainmentStep
    /\ contained.after.velocity.z = contained.before.velocity.z

----------------------------------------------------------------------------
(* EmergentBehaviorDetector *)

Detected == detected # NoDetection

Labels == {"Flocking", "Swarming", "Milling", "Splitting", "Schooling"}

\* C13: detectPattern returns Unknown if and only if the population has fewer than
\* 3 boids; for 3 boids or more the result is one of Flocking, Swarming, Milling,
\* Splitting, Schooling.
C13_UnknownIffFewerThanThree ==
    Detected =>
        /\ detected.pattern = "Unknown" <=> Len(population) < 3
        /\ Len(population) >= 3 => detected.pattern \in Labels

C13_Witness == Detected /\ Len(population) = 2 /\ detected.pattern = "Unknown"

Rule1 ==
    /\ detected.alignmentLevel > Tenths(8)
    /\ detected.cohesionLevel > Tenths(7)
    /\ detected.velocityVariance < Tenths(3)

Rule2 == detected.cohesionLevel > Tenths(8) /\ detected.velocityVariance > Tenths(6)

Rule3 == detected.alignmentLevel < Tenths(3) /\ detected.velocityVariance > Tenths(7)

Rule4 == detected.cohesionLevel < Tenths(4)

\* C14: for 3 boids or more the pattern is the label of the first rule, in the order
\* Flocking, Swarming, Milling, Splitting, that the three levels match, and
\* Schooling when none matches; levels matching rules 2 and 3 give Swarming, levels
\* matching rules 3 and 4 give Milling.
C14_FirstMatchingRule ==
    Detected /\ Len(population) >= 3 =>
        /\ Rule1 => detected.pattern = "Flocking"
        /\ ~Rule1 /\ Rule2 => detected.pattern = "Swarming"
        /\ ~Rule1 /\ ~Rule2 /\ Rule3 => detected.pattern = "Milling"
        /\ ~Rule1 /\ ~Rule2 /\ ~Rule3 /\ Rule4 => detected.pattern = "Splitting"
        /\ ~Rule1 /\ ~Rule2 /\ ~Rule3 /\ ~Rule4 => detected.pattern = "Schooling"
        /\ Rule2 /\ Rule3 => detected.pattern = "Swarming"
        /\ Rule3 /\ Rule4 => detected.pattern = "Milling"

C14_Witness ==
    Detected /\ Len(population) >= 3 /\ Rule2 /\ Rule3 /\ detected.pattern = "Swarming"

----------------------------------------------------------------------------
(* CrowdAnalyzer *)

Analyzed == density.called

Cells == 0 .. density.gridWidth * density.gridHeight - 1

CellCount(n) == density.densityGrid[n \div density.gridWidth][n % density.gridWidth]

CellDensity(n) == Density(CellCount(n), cellSize)

\* the largest density among the cells scanned up to and including cell n
RunningMaximum(n) ==
    CHOOSE d \in {CellDensity(m) : m \in 0 .. n} : \A m \in 0 .. n : d >= CellDensity(m)

HotCells == {n \in Cells : CellDensity(n) * 10 > RunningMaximum(n) * 8}

\* C16: scanning rows in increasing y and cells in increasing x, a cell is reported
\* as a hotspot, at its corner and in scan order, if and only if its density is
\* strictly greater than 0.8 times the largest density among the cells scanned up to
\* and including it.
C16_HotspotsAgainstRunningMaximum ==
    Analyzed /\ Len(population) > 0 =>
        /\ Len(density.hotspots) = Cardinality(HotCells)
        /\ \A k \in 1 .. Len(density.hotspots) :
               \E n \in HotCells :
                   /\ Cardinality({m \in HotCells : m < n}) = k - 1
                   /\ density.hotspots[k] =
                          CellCorner(population, n % density.gridWidth,
                                     n \div density.gridWidth, cellSize)

C16_Witness ==
    /\ Analyzed
    /\ Len(population) > 0
    /\ \E n \in HotCells : CellDensity(n) * 10 <= density.maxDensity * 8

Extent(ax) == MaxCoordinate(population, ax) - MinCoordinate(population, ax)

\* C17: when the x and y extents of a non-empty population are smaller than
\* cellSize, the grid is 1 x 1, its cell holds every boid, averageDensity and
\* maxDensity both are count / cellSize^2, and the only hotspot is that cell.
C17_SingleCell ==
    Analyzed /\ Len(population) > 0 /\ Extent("x") < cellSize /\ Extent("y") < cellSize =>
        /\ density.gridWidth = 1
        /\ density.gridHeight = 1
        /\ density.densityGrid[0][0] = Len(population)
        /\ density.maxDensity * cellSize * cellSize
               <= Len(population) * DensityScale * FP * FP
        /\ density.maxDensity * cellSize * cellSize
               > Len(population) * DensityScale * FP * FP - cellSize * cellSize
        /\ density.averageDensity = density.maxDensity
        /\ density.hotspots = <<Vec(MinCoordinate(population, "x"),
                                    MinCoordinate(population, "y"), 0)>>

C17_Witness ==
    /\ Analyzed
    /\ Len(population) = 4
    /\ cellSize = 5 * FP
    /\ Extent("x") < cellSize
    /\ Extent("y") < cellSize
    /\ Len(density.hotspots) = 1

\* C18: on an empty population analyzeDensity returns averageDensity 0, maxDensity 0
\* and no hotspot, and builds no grid.
C18_EmptyPopulation ==
    Analyzed /\ Len(population) = 0 =>
        /\ density.averageDensity = 0
        /\ density.maxDensity = 0
        /\ density.hotspots = << >>
        /\ density.gridWidth = 0
        /\ density.gridHeight = 0

C18_Witness == Analyzed /\ population = << >> /\ density.hotspots = << >>

----------------------------------------------------------------------------
(* Steering behaviors called on their own *)

Called == outcome.calls > 0

\* C19 as stated: every behavior's calculate yields a finite vector, for every agent
\* position, neighbor list and set of registered obstacles, also for an agent
\* standing exactly on a target, on a neighbor or on the centre of an obstacle.
C19_EveryResultFinite == Called => ~outcome.nan

NeighborKinds == {"Separation", "Alignment", "Cohesion", "Avoidance"}

\* no agent of the neighbor list counts for the behavior: it is the agent itself, at
\* distance 0, or not closer than the radius (Seek, Flee and Wander read no neighbor)
NoQualifyingNeighbor ==
    \A k \in 1 .. Len(probed.neighbors) :
        LET diff == VSub(probed.agent.position, probed.neighbors[k].position)
        IN  \/ behavior.kind \notin NeighborKinds
            \/ probed.neighbors[k].id = probed.agent.id
            \/ ~MagGT(diff, 0)
            \/ ~MagLT(diff, behavior.radius)

NoObstacleInRange ==
    behavior.kind = "Avoidance" =>
        \A k \in 1 .. Len(behavior.obstacles) :
            ~MagLT(VSub(probed.agent.position, behavior.obstacles[k].position),
                   behavior.obstacles[k].radius + AgentRadius + behavior.radius)

\* the desired velocity of the last call: the vector returned plus the velocity
Desired == VAdd(outcome.value, probed.agent.velocity)

\* C20 as stated: every steering behavior returns the zero vector when called with
\* no qualifying neighbor and, for Avoidance, no obstacle in range.
C20_AllZeroWithoutQualifyingNeighbors ==
    Called /\ NoQualifyingNeighbor /\ NoObstacleInRange => outcome.value = Zero3

\* C20: called with no qualifying neighbor and, for Avoidance, no obstacle in range,
\* Separation, Alignment, Cohesion and Avoidance return the zero vector; Seek, Flee
\* and Wander do not read the neighbors and return desired - velocity, where
\* desired has length 10 for Seek and Flee (0 for an agent on the target or threat)
\* and length 5 for Wander.
C20_ZeroForNeighborBehaviors ==
    Called /\ NoQualifyingNeighbor /\ NoObstacleInRange =>
        /\ behavior.kind \in NeighborKinds => outcome.value = Zero3 /\ ~outcome.nan
        /\ behavior.kind \in {"Seek", "Flee"} =>
               IF behavior.point = probed.agent.position
               THEN Desired = Zero3
               ELSE HasLength(Desired, SteerLength)
        /\ behavior.kind = "Wander" => HasLength(Desired, WanderSpeed)

C20_Witness ==
    /\ Called
    /\ NoQualifyingNeighbor
    /\ behavior.kind = "Seek"
    /\ Len(probed.neighbors) > 0
    /\ outcome.value # Zero3

ObstacleDistance(k) == VSub(probed.agent.position, behavior.obstacles[k].position)

\* C21 as stated: an obstacle adds a repulsion term if and only if its distance from
\* the agent is less than obstacle.radius + avoidanceRadius.
C21_ObstacleRangeWithoutAgentRadius ==
    Called /\ behavior.kind = "Avoidance" =>
        \A k \in 1 .. Len(outcome.terms) :
            outcome.terms[k] <=>
                MagLT(ObstacleDistance(k), behavior.obstacles[k].radius + behavior.radius)

\* C21: an obstacle adds a repulsion term if and only if its distance from the agent
\* is less than obstacle.radius + 1.0 + avoidanceRadius, the 1.0 being the radius of
\* the agent; at distance 0 the term it adds is NaN.
C21_ObstacleRange ==
    Called /\ behavior.kind = "Avoidance" =>
        /\ \A k \in 1 .. Len(outcome.terms) :
               outcome.terms[k] <=>
                   MagLT(ObstacleDistance(k),
                         behavior.obstacles[k].radius + 1 * FP + behavior.radius)
        /\ outcome.nan <=>
               \E k \in 1 .. Len(outcome.terms) : ObstacleDistance(k) = Zero3

C21_Witness ==
    /\ Called
    /\ behavior.kind = "Avoidance"
    /\ \E k \in 1 .. Len(outcome.terms) :
           /\ outcome.terms[k]
           /\ ~MagLT(ObstacleDistance(k), behavior.obstacles[k].radius + behavior.radius)

----------------------------------------------------------------------------
(* Agent vitals and the states of decision-making (math_utils.hpp,         *)
(* state_machine.cpp)                                                      *)

MaxWrites == 3
MaxFsmOps == 4

FullVital == 100 * FP

\* Agent::Agent: health_(100.0f), energy_(100.0f), velocity zero
NewCharacter(p) ==
    [position |-> p, velocity |-> Zero3, health |-> FullVital, energy |-> FullVital]

\* std::min(a, b)
Smaller(a, b) == IF b < a THEN b ELSE a

\* the clamp without its lower bound
ClampAbove(v) == Smaller(FullVital, v)

\* std::max(0.0f, std::min(100.0f, v))
Clamp(v) == Larger(0, Smaller(FullVital, v))

setHealth(c, h) == [c EXCEPT !.health = Clamp(h)]

setEnergy(c, e) == [c EXCEPT !.energy = Clamp(e)]

\* rate * deltaTime for deltaTime = d.num / d.den
PerTime(rate, d) == Div(rate * d.num, d.den)

ChaseSpeed == 8 * FP
FleeSpeed == 10 * FP
ChaseDrain == 10 * FP
FleeDrain == 15 * FP
IdleGain == 5 * FP
IdlePeriod == 3 * FP
ArrivalDistance == FP \div 10

\* the common movement of ChaseState::update and FleeState::update along direction
MovedAlong(c, direction, speed, d) ==
    IF MagGT(direction, ArrivalDistance)
    THEN LET velocity == UnitMul(normalized(direction), speed)
         IN  [c EXCEPT !.velocity = velocity,
                       !.position = VAdd(c.position, VMul(velocity, d.num, d.den))]
    ELSE c

\* ChaseState::update: "chase_target" is not in the memory, so the default applies
ChaseStateUpdate(c, d) ==
    LET m == MovedAlong(c, VSub(Zero3, c.position), ChaseSpeed, d)
    IN  setEnergy(m, Larger(0, m.energy - PerTime(ChaseDrain, d)))

\* FleeState::update: "threat_position" is not in the memory, so the default applies
FleeStateUpdate(c, d) ==
    LET m == MovedAlong(c, VSub(c.position, Zero3), FleeSpeed, d)
    IN  setEnergy(m, Larger(0, m.energy - PerTime(FleeDrain, d)))

\* IdleState::update with its static timer
IdleStateUpdate(c, timer, d) ==
    LET t == timer + PerTime(FP, d)
    IN  IF t > IdlePeriod
        THEN [character |-> setEnergy(c, Smaller(FullVital, c.energy + PerTime(IdleGain, d))),
              idleTimer |-> 0]
        ELSE [character |-> c, idleTimer |-> t]

\* State::update of a State of the given kind
StateUpdate(kind, c, timer, d) ==
    CASE kind = "Idle"  -> IdleStateUpdate(c, timer, d)
      [] kind = "Chase" -> [character |-> ChaseStateUpdate(c, d), idleTimer |-> timer]
      [] kind = "Flee"  -> [character |-> FleeStateUpdate(c, d), idleTimer |-> timer]

StateKinds == {"Idle", "Chase", "Flee"}

\* arguments of the setters: below the range, inside it, above it
VitalArguments == {-50 * FP, (75 * FP) \div 2, 250 * FP}

\* deltaTime of the state updates: half a second and four seconds
Deltas == {[num |-> 1, den |-> 2], [num |-> 4, den |-> 1]}

CharacterStart == Vec(3 * FP, 0, 4 * FP)

NoWrite == [op |-> "none", arg |-> 0, count |-> 0]

NoMachine == << >>

\* no crowd, no steering controller, no detector, analyzer or behavior in use
MovementIdle ==
    /\ boids = << >>
    /\ CrowdIdle
    /\ CtlIdle
    /\ behaviors = << >>
    /\ ProbesIdle

InitAgent ==
    /\ MovementIdle
    /\ MsgIdle
    /\ BtIdle
    /\ PathIdle
    /\ LineIdle
    /\ character = NewCharacter(CharacterStart)
    /\ idleTimer = 0
    /\ written = NoWrite
    /\ fsm = NoMachine

SetHealth(h) ==
    /\ written.count < MaxWrites
    /\ character' = setHealth(character, h)
    /\ written' = [op |-> "setHealth", arg |-> h, count |-> written.count + 1]
    /\ UNCHANGED <<idleTimer, fsm, crowdVars, ctlVars, probeVars, msgVars, btVars, pathVars, lineVars>>

SetEnergy(e) ==
    /\ written.count < MaxWrites
    /\ character' = setEnergy(character, e)
    /\ written' = [op |-> "setEnergy", arg |-> e, count |-> written.count + 1]
    /\ UNCHANGED <<idleTimer, fsm, crowdVars, ctlVars, probeVars, msgVars, btVars, pathVars, lineVars>>

\* State::update of a state of the given kind called on the agent
UpdateState(kind, d) ==
    /\ written.count < MaxWrites
    /\ LET r == StateUpdate(kind, character, idleTimer, d)
       IN  /\ character' = r.character
           /\ idleTimer' = r.idleTimer
    /\ written' = [op |-> kind, arg |-> PerTime(FP, d), count |-> written.count + 1]
    /\ UNCHANGED <<fsm, crowdVars, ctlVars, probeVars, msgVars, btVars, pathVars, lineVars>>

NextAgent ==
    \/ \E h \in VitalArguments : SetHealth(h)
    \/ \E e \in VitalArguments : SetEnergy(e)
    \/ \E kind \in StateKinds, d \in Deltas : UpdateState(kind, d)

SpecAgent == InitAgent /\ [][NextAgent]_vars

----------------------------------------------------------------------------
(* Agent vitals *)

InRange(v) == 0 <= v /\ v <= FullVital

Clamped(v) == IF v < 0 THEN 0 ELSE IF v > FullVital THEN FullVital ELSE v

\* C22: health and energy are always within [0, 100], and after setHealth or
\* setEnergy (the calls of the states' updates included) the getter returns the
\* argument clamped to that range
C22_VitalsClamped ==
    /\ InRange(character.health)
    /\ InRange(character.energy)
    /\ written.op = "setHealth" => character.health = Clamped(written.arg)
    /\ written.op = "setEnergy" => character.energy = Clamped(written.arg)

\* both setters were called with arguments outside the range, and a state drained
\* the energy
C22_Witness ==
    /\ written.count = MaxWrites
    /\ written.op = "setHealth"
    /\ written.arg > FullVital
    /\ character.health = FullVital
    /\ character.energy = 0

----------------------------------------------------------------------------
(* The line scenario: five boids on the x axis, run tick by tick *)

LineTicks == 10

LineSpacing == 5 * FP

LineLength == 5

LineDeltaTime == [num |-> 1, den |-> 10]

\* addBoid of Boid("i", Vector3D(5 * (i - 1), 0, 0)) for i = 1 .. 5
LineOfBoids == [i \in 1 .. LineLength |-> NewBoid(Vec((i - 1) * LineSpacing, 0, 0))]

InitLine ==
    /\ boids = LineOfBoids
    /\ CrowdIdle
    /\ CtlIdle
    /\ behaviors = << >>
    /\ ProbesIdle
    /\ DmIdle
    /\ MsgIdle
    /\ BtIdle
    /\ PathIdle
    /\ atTickStart = LineOfBoids

\* CrowdSimulation::update(0.1f) is called
BeginLineTick ==
    /\ pc = "idle"
    /\ ticks < LineTicks
    /\ pc' = "neighbors"
    /\ idx' = 1
    /\ dt' = LineDeltaTime
    /\ ticks' = ticks + 1
    /\ assigned' = {}
    /\ moved' = {}
    /\ bounded' = {}
    /\ adjusted' = {}
    /\ atTickStart' = boids
    /\ UNCHANGED <<boids, last, boundary, contained, ctlVars, probeVars,
                   dmVars, msgVars, btVars, pathVars>>

NextLine ==
    \/ BeginLineTick
    \/ SetNeighborsStep
    \/ BoidUpdateStep
    \/ BoundaryStep

SpecLine == InitLine /\ [][NextLine]_vars

\* the squared distance between boid i and boid i + 1 of bs
SquaredGap(bs, i) ==
    LET diff == VSub(bs[i + 1].position, bs[i].position)
    IN  dot(diff, diff)

FirstTicks == 1 .. 3

----------------------------------------------------------------------------
(* Boid::update on its own terms *)

\* the velocity Boid::update integrated in its last call, before the speed limit
IntegratedVelocity ==
    VAdd(last.before.velocity,
         VMul(VAdd(VAdd(VMul(last.separation, separationWeightNum, separationWeightDen),
                        VMul(last.alignment, alignmentWeightNum, 1)),
                   VMul(last.cohesion, cohesionWeightNum, 1)),
              dt.num, dt.den))

\* C25: right after Boid::update the boid is no faster than 8.0 and its position is
\* the position before the call plus the already limited new velocity times deltaTime
C25_CappedThenMoved ==
    pc = "boundary" =>
        /\ MagLE(boids[idx].velocity, BoidMaxSpeed)
        /\ boids[idx].position =
               VAdd(last.before.position, VMul(boids[idx].velocity, dt.num, dt.den))

\* a boid that was already moving was updated, and the limit cut its new velocity
C25_Witness ==
    /\ pc = "boundary"
    /\ last.before.velocity # Zero3
    /\ MagGT(IntegratedVelocity, BoidMaxSpeed)
    /\ boids[idx].velocity # IntegratedVelocity
    /\ boids[idx].position # last.before.position

----------------------------------------------------------------------------
(* CrowdAnalyzer: the boids of the grid *)

\* the boids counted in the cells 0 .. n of the grid, in scan order
RECURSIVE CountedUpTo(_)
CountedUpTo(n) == IF n < 0 THEN 0 ELSE CellCount(n) + CountedUpTo(n - 1)

CornerOf(n) ==
    CellCorner(population, n % density.gridWidth, n \div density.gridWidth, cellSize)

\* C26: analyzeDensity drops no boid: every boid's cell index lies inside the grid,
\* the cell counts add up to the number of boids, and no empty cell is a hotspot
C26_NoBoidDropped ==
    Analyzed /\ Len(population) > 0 =>
        /\ \A k \in 1 .. Len(population) :
               /\ GridIndex(population, k, "x", cellSize) \in 0 .. density.gridWidth - 1
               /\ GridIndex(population, k, "y", cellSize) \in 0 .. density.gridHeight - 1
        /\ CountedUpTo(density.gridWidth * density.gridHeight - 1) = Len(population)
        /\ \A n \in Cells :
               CellCount(n) = 0 =>
                   \A k \in 1 .. Len(density.hotspots) : density.hotspots[k] # CornerOf(n)

\* a grid of several columns and rows with empty cells and with boids in its last
\* column and in its last row
C26_Witness ==
    /\ Analyzed
    /\ Len(population) >= 3
    /\ density.gridWidth > 1
    /\ density.gridHeight > 1
    /\ \E n \in Cells : CellCount(n) = 0
    /\ \E k \in 1 .. Len(population) :
           GridIndex(population, k, "x", cellSize) = density.gridWidth - 1
    /\ \E k \in 1 .. Len(population) :
           GridIndex(population, k, "y", cellSize) = density.gridHeight - 1

----------------------------------------------------------------------------
(* CommunicationChannel (messaging.hpp, messaging.cpp) *)

MaxMessages == 2
MaxChannelUpdates == 2
MaxReads == 2

ChannelRange == 50 * FP

\* the delay sendMessage gives every message: 0.1f
MessageDelay == FP \div 10

AgentIds == {"a", "b", "c"}

\* where the agents stand: b within the range of a, c out of the range of both
AgentPosition(id) ==
    CASE id = "a" -> Zero3
      [] id = "b" -> Vec(10 * FP, 0, 0)
      [] id = "c" -> Vec(100 * FP, 0, 0)

\* Message(sender, receiver, type, content); content numbers the messages as sent
Message(sender, receiver, content) ==
    [senderId |-> sender, receiverId |-> receiver, content |-> content]

\* CommunicationChannel(50.0f): empty queue, no inbox; inboxIds are the keys of
\* agentInboxes_
NewChannel ==
    [messageQueue |-> << >>, inboxIds |-> {}, agentInboxes |-> [id \in AgentIds |-> << >>],
     range |-> ChannelRange]

\* CommunicationChannel::isInRange
isInRange(ch, sender, receiver) == MagLE(VSub(sender, receiver), ch.range)

\* CommunicationChannel::sendMessage
sendMessage(ch, message, senderPosition) ==
    [ch EXCEPT !.messageQueue =
        Append(@, [message |-> message, senderPosition |-> senderPosition,
                   delay |-> MessageDelay])]

\* CommunicationChannel::broadcastMessage
broadcastMessage(ch, message, senderPosition) ==
    sendMessage(ch, [message EXCEPT !.receiverId = ""], senderPosition)

\* update, lines 42-54: the delivery of a message whose delay has elapsed
Deliver(ch, pending) ==
    IF pending.message.receiverId = ""
    THEN [ch EXCEPT !.agentInboxes =
             [id \in AgentIds |->
                 IF id \in ch.inboxIds /\ id # pending.message.senderId
                 THEN Append(ch.agentInboxes[id], pending.message)
                 ELSE ch.agentInboxes[id]]]
    ELSE [ch EXCEPT !.inboxIds = @ \cup {pending.message.receiverId},
                    !.agentInboxes[pending.message.receiverId] = Append(@, pending.message)]

\* the while loop of update delivering every message as soon as update sees it
RECURSIVE ChannelUpdateLoopAtOnce(_, _, _, _)
ChannelUpdateLoopAtOnce(ch, k, deltaTime, remaining) ==
    IF k > Len(ch.messageQueue) THEN [ch EXCEPT !.messageQueue = remaining]
    ELSE ChannelUpdateLoopAtOnce(Deliver(ch, ch.messageQueue[k]), k + 1, deltaTime, remaining)

\* update, the while loop from the k-th message of the queue on; remaining collects
\* the messages that stay pending
RECURSIVE ChannelUpdateLoop(_, _, _, _)
ChannelUpdateLoop(ch, k, deltaTime, remaining) ==
    IF k > Len(ch.messageQueue) THEN [ch EXCEPT !.messageQueue = remaining]
    ELSE LET pending == [ch.messageQueue[k] EXCEPT !.delay = @ - deltaTime]
         IN  IF pending.delay <= 0
             THEN ChannelUpdateLoop(Deliver(ch, pending), k + 1, deltaTime, remaining)
             ELSE ChannelUpdateLoop(ch, k + 1, deltaTime, Append(remaining, pending))

\* CommunicationChannel::update
channelUpdate(ch, deltaTime) == ChannelUpdateLoop(ch, 1, deltaTime, << >>)

\* CommunicationChannel::getMessagesFor: the messages returned and the channel after
getMessagesFor(ch, agentId) ==
    IF agentId \in ch.inboxIds
    THEN [messages |-> ch.agentInboxes[agentId],
          channel |-> [ch EXCEPT !.agentInboxes[agentId] = << >>]]
    ELSE [messages |-> << >>, channel |-> ch]

\* deltaTime of the update calls: 0.05 and 0.1
ChannelDeltas == {FP \div 20, FP \div 10}

\* who sends a direct message to whom
DirectPairs == {<<"a", "b">>, <<"a", "c">>, <<"b", "a">>}

Broadcasters == {"a", "b"}

\* how often the message numbered n occurs in the sequence of messages
Occurrences(messages, n) == Cardinality({k \in 1 .. Len(messages) : messages[k].content = n})

NothingDelivered ==
    [sent |-> << >>, elapsed |-> << >>, placed |-> << >>,
     returned |-> [id \in AgentIds |-> << >>], updates |-> 0, reads |-> 0]

InitChannel ==
    /\ MovementIdle
    /\ DmIdle
    /\ BtIdle
    /\ PathIdle
    /\ LineIdle
    /\ channel = NewChannel
    /\ delivered = NothingDelivered

Sent(message) ==
    [delivered EXCEPT !.sent = Append(@, message),
                      !.elapsed = Append(@, 0),
                      !.placed = Append(@, [id \in AgentIds |-> 0])]

\* channel.sendMessage(Message(sender, receiver, ...), position of the sender)
SendMessage(sender, receiver) ==
    /\ Len(delivered.sent) < MaxMessages
    /\ LET message == Message(sender, receiver, Len(delivered.sent) + 1)
       IN  /\ channel' = sendMessage(channel, message, AgentPosition(sender))
           /\ delivered' = Sent(message)
    /\ UNCHANGED <<crowdVars, ctlVars, probeVars, dmVars, btVars, pathVars, lineVars>>

\* channel.broadcastMessage(Message(sender, addressee, ...), position of the sender)
BroadcastMessage(sender, addressee) ==
    /\ Len(delivered.sent) < MaxMessages
    /\ LET message == Message(sender, addressee, Len(delivered.sent) + 1)
       IN  /\ channel' = broadcastMessage(channel, message, AgentPosition(sender))
           /\ delivered' = Sent([message EXCEPT !.receiverId = ""])
    /\ UNCHANGED <<crowdVars, ctlVars, probeVars, dmVars, btVars, pathVars, lineVars>>

\* channel.update(deltaTime)
ChannelUpdate(deltaTime) ==
    /\ delivered.updates < MaxChannelUpdates
    /\ channel' = channelUpdate(channel, deltaTime)
    /\ delivered' =
           [delivered EXCEPT
               !.updates = @ + 1,
               !.elapsed = [n \in 1 .. Len(delivered.sent) |-> delivered.elapsed[n] + deltaTime],
               !.placed = [n \in 1 .. Len(delivered.sent) |->
                              [id \in AgentIds |->
                                  delivered.placed[n][id]
                                  + Occurrences(channelUpdate(channel, deltaTime).agentInboxes[id], n)
                                  - Occurrences(channel.agentInboxes[id], n)]]]
    /\ UNCHANGED <<crowdVars, ctlVars, probeVars, dmVars, btVars, pathVars, lineVars>>

\* channel.getMessagesFor(agentId, position of the agent)
GetMessagesFor(agentId) ==
    /\ delivered.reads < MaxReads
    /\ channel' = getMessagesFor(channel, agentId).channel
    /\ delivered' =
           [delivered EXCEPT
               !.reads = @ + 1,
               !.returned[agentId] = @ \o getMessagesFor(channel, agentId).messages]
    /\ UNCHANGED <<crowdVars, ctlVars, probeVars, dmVars, btVars, pathVars, lineVars>>

NextChannel ==
    \/ \E pair \in DirectPairs : SendMessage(pair[1], pair[2])
    \/ \E sender \in Broadcasters : BroadcastMessage(sender, "c")
    \/ \E deltaTime \in ChannelDeltas : ChannelUpdate(deltaTime)
    \/ \E agentId \in AgentIds : GetMessagesFor(agentId)

SpecChannel == InitChannel /\ [][NextChannel]_vars

----------------------------------------------------------------------------
(* CommunicationChannel: delivery *)

MessageNumbers == 1 .. Len(delivered.sent)

Broadcasts == {n \in MessageNumbers : delivered.sent[n].receiverId = ""}

DirectMessages == {n \in MessageNumbers : delivered.sent[n].receiverId # ""}

Due(n) == delivered.elapsed[n] >= MessageDelay

\* C24: a broadcast whose delay has elapsed has been placed in the inbox of every
\* agent other than its sender that is within the channel's range of the sender's
\* position, and in no other inbox
C24_BroadcastWithinRange ==
    \A n \in Broadcasts :
        Due(n) =>
            \A id \in AgentIds :
                delivered.placed[n][id] =
                    IF /\ id # delivered.sent[n].senderId
                       /\ isInRange(channel, AgentPosition(delivered.sent[n].senderId),
                                    AgentPosition(id))
                    THEN 1 ELSE 0

\* C27: a direct message is in no inbox and in no result of getMessagesFor before
\* the updates since its sending add up to the delay; from then on it has been
\* placed once, in its receiver's inbox only, and it is either still there or was
\* returned by one getMessagesFor call; every receiver gets its messages in the order
\* in which they were sent
C27_DirectDelivery ==
    /\ \A n \in DirectMessages :
           LET receiver == delivered.sent[n].receiverId
               waiting == Occurrences(channel.agentInboxes[receiver], n)
               read == Occurrences(delivered.returned[receiver], n)
           IN  /\ \A id \in AgentIds \ {receiver} : delivered.placed[n][id] = 0
               /\ ~Due(n) => delivered.placed[n][receiver] = 0 /\ waiting = 0 /\ read = 0
               /\ Due(n) => delivered.placed[n][receiver] = 1 /\ waiting + read = 1
    /\ \A id \in AgentIds :
           LET got == delivered.returned[id] \o channel.agentInboxes[id]
           IN  \A j, k \in 1 .. Len(got) : j < k => got[j].content < got[k].content

\* two direct messages to b, the first sent an update before the second, both
\* delivered by the second update and returned together, after a read that was too
\* early had returned nothing
C27_Witness ==
    /\ Len(delivered.sent) >= 2
    /\ delivered.sent[1].receiverId = "b"
    /\ delivered.sent[2].receiverId = "b"
    /\ delivered.elapsed[1] > delivered.elapsed[2]
    /\ Due(2)
    /\ delivered.reads = 2
    /\ Len(delivered.returned["b"]) = 2
    /\ delivered.returned["b"][1].content = 1
    /\ channel.agentInboxes["b"] = << >>

----------------------------------------------------------------------------
(* FiniteStateMachine (state_machine.hpp, state_machine.cpp) *)

\* names passed to addState, each with a State of its own kind, and a name that is
\* never registered
RegisteredNames == StateKinds

StateNames == RegisteredNames \cup {"Patrol"}

NoCallYet == [op |-> "none", name |-> "", currentState |-> 0, currentStateName |-> ""]

\* FiniteStateMachine(agent): currentState_(nullptr), no state registered. State
\* objects are numbered as they are constructed; 0 is the null pointer, in states
\* the mark of a name that is not registered
NewMachine ==
    [states |-> [name \in StateNames |-> 0],
     objects |-> << >>,
     currentState |-> 0,
     currentStateName |-> "",
     hooks |-> << >>,
     call |-> NoCallYet,
     ops |-> 0,
     crashed |-> FALSE]

\* the call being made, with the current state it finds
Calling(m, op, name) ==
    [op |-> op, name |-> name, currentState |-> m.currentState,
     currentStateName |-> m.currentStateName]

\* currentState_ points to a State object that was destroyed
Dangling(m) == m.currentState # 0 /\ ~m.objects[m.currentState].alive

\* FiniteStateMachine::addState: states_[name] = std::move(state) destroys the State
\* that was registered under name before
addState(m, name, kind) ==
    LET replaced == m.states[name]
        objects == IF replaced # 0 THEN [m.objects EXCEPT ![replaced].alive = FALSE]
                   ELSE m.objects
    IN  [m EXCEPT !.objects = Append(objects, [kind |-> kind, alive |-> TRUE]),
                  !.states[name] = Len(m.objects) + 1,
                  !.hooks = << >>,
                  !.call = Calling(m, "addState", name),
                  !.ops = @ + 1]

\* FiniteStateMachine::setState; survives tells whether the call of exit through a
\* dangling currentState_ returns
setState(m, name, survives) ==
    LET it == m.states[name]
        exit == IF m.currentState # 0
                THEN <<[hook |-> "exit", state |-> m.currentState]>> ELSE << >>
    IN  IF it # 0
        THEN IF Dangling(m) /\ ~survives
             THEN [m EXCEPT !.hooks = exit, !.call = Calling(m, "setState", name),
                            !.ops = @ + 1, !.crashed = TRUE]
             ELSE [m EXCEPT !.currentState = it,
                            !.currentStateName = name,
                            !.hooks = exit \o <<[hook |-> "enter", state |-> it]>>,
                            !.call = Calling(m, "setState", name),
                            !.ops = @ + 1]
        ELSE [m EXCEPT !.hooks = << >>, !.call = Calling(m, "setState", name), !.ops = @ + 1]

\* the State::update a call through currentState_ may run: that of the object's own
\* class, or for a destroyed object that of any class, or none (the call crashes)
Dispatched(m) ==
    IF Dangling(m) THEN StateKinds \cup {"crash"} ELSE {m.objects[m.currentState].kind}

InitFsm ==
    /\ MovementIdle
    /\ MsgIdle
    /\ BtIdle
    /\ PathIdle
    /\ LineIdle
    /\ character = NewCharacter(CharacterStart)
    /\ idleTimer = 0
    /\ written = NoWrite
    /\ fsm = NewMachine

\* fsm.addState(name, std::make_unique<...State>(...))
AddState(name) ==
    /\ ~fsm.crashed
    /\ fsm.ops < MaxFsmOps
    /\ fsm' = addState(fsm, name, name)
    /\ UNCHANGED <<character, idleTimer, written, crowdVars, ctlVars, probeVars,
                   msgVars, btVars, pathVars, lineVars>>

\* fsm.setState(name)
SetState(name) ==
    /\ ~fsm.crashed
    /\ fsm.ops < MaxFsmOps
    /\ \E survives \in (IF Dangling(fsm) /\ fsm.states[name] # 0 THEN BOOLEAN ELSE {TRUE}) :
           fsm' = setState(fsm, name, survives)
    /\ UNCHANGED <<character, idleTimer, written, crowdVars, ctlVars, probeVars,
                   msgVars, btVars, pathVars, lineVars>>

\* fsm.update(deltaTime)
FsmUpdate(d) ==
    /\ ~fsm.crashed
    /\ fsm.ops < MaxFsmOps
    /\ IF fsm.currentState = 0
       THEN /\ fsm' = [fsm EXCEPT !.hooks = << >>, !.call = Calling(fsm, "update", ""),
                                  !.ops = @ + 1]
            /\ UNCHANGED <<character, idleTimer>>
       ELSE \E kind \in Dispatched(fsm) :
                IF kind = "crash"
                THEN /\ fsm' = [fsm EXCEPT !.hooks = << >>,
                                           !.call = Calling(fsm, "update", ""),
                                           !.ops = @ + 1, !.crashed = TRUE]
                     /\ UNCHANGED <<character, idleTimer>>
                ELSE /\ fsm' = [fsm EXCEPT !.hooks = << >>,
                                           !.call = Calling(fsm, "update", ""),
                                           !.ops = @ + 1]
                     /\ character' = StateUpdate(kind, character, idleTimer, d).character
                     /\ idleTimer' = StateUpdate(kind, character, idleTimer, d).idleTimer
    /\ UNCHANGED <<written, crowdVars, ctlVars, probeVars, msgVars, btVars, pathVars, lineVars>>

NextFsm ==
    \/ \E name \in RegisteredNames : AddState(name)
    \/ \E name \in StateNames : SetState(name)
    \/ \E d \in Deltas : FsmUpdate(d)

SpecFsm == InitFsm /\ [][NextFsm]_vars

----------------------------------------------------------------------------
(* FiniteStateMachine: the current state *)

\* the current state is null or the State registered under the current name
CurrentStateRegistered ==
    fsm.currentState = 0 \/ fsm.currentState = fsm.states[fsm.currentStateName]

\* setState with a name that is not registered changed nothing and called no hook
UnregisteredIgnored ==
    (fsm.call.op = "setState" /\ fsm.states[fsm.call.name] = 0) =>
        /\ fsm.currentState = fsm.call.currentState
        /\ fsm.currentStateName = fsm.call.currentStateName
        /\ fsm.hooks = << >>

\* setState with a registered name called exit on the previous state, if there was
\* one, and then enter on the new one
ExitBeforeEnter ==
    (fsm.call.op = "setState" /\ fsm.states[fsm.call.name] # 0) =>
        fsm.hooks =
            (IF fsm.call.currentState # 0
             THEN <<[hook |-> "exit", state |-> fsm.call.currentState]>> ELSE << >>)
            \o <<[hook |-> "enter", state |-> fsm.states[fsm.call.name]]>>

\* C28: after any sequence of addState, setState and update the current state is
\* null or the State object registered under getCurrentStateName(); setState with
\* an unregistered name changes nothing and calls no hook; setState with a
\* registered name calls exit on the previous state before enter on the new one
C28_CurrentStateRegistered ==
    /\ CurrentStateRegistered
    /\ UnregisteredIgnored
    /\ ExitBeforeEnter

----------------------------------------------------------------------------
(* Behavior tree composites: SequenceNode and SelectorNode (pathfinding.cpp) *)

MaxChildren == 3
MaxExecutes == 3

BehaviorStatus == {"Success", "Failure", "Running"}

CompositeKinds == {"Sequence", "Selector"}

\* a composite node without children: currentChild_ = 0
NewComposite(kind) == [kind |-> kind, children |-> << >>, currentChild |-> 0]

\* a child node; touched tells that it was executed since its last reset
NewChild == [touched |-> FALSE]

\* addChild
addChild(node) == [node EXCEPT !.children = Append(@, NewChild)]

\* a reset that leaves everything as it is
resetNothing(node) == node

\* SequenceNode::reset, SelectorNode::reset
reset(node) ==
    [node EXCEPT !.currentChild = 0,
                 !.children = [k \in 1 .. Len(node.children) |-> [touched |-> FALSE]]]

\* the while loop of execute: ending is the child status that ends the loop at once
\* (Failure for a sequence, Success for a selector), completed the status returned
\* when no child is left; results[k] is what the k-th child's execute returns
RECURSIVE ExecuteLoop(_, _, _, _, _)
ExecuteLoop(node, results, ending, completed, ran) ==
    IF node.currentChild >= Len(node.children)
    THEN [node |-> reset(node), status |-> completed, ran |-> ran]
    ELSE LET k == node.currentChild + 1
             executed == [node EXCEPT !.children[k].touched = TRUE]
         IN  IF results[k] = ending
             THEN [node |-> reset(executed), status |-> ending, ran |-> Append(ran, k)]
             ELSE IF results[k] = "Running"
             THEN [node |-> executed, status |-> "Running", ran |-> Append(ran, k)]
             ELSE ExecuteLoop([executed EXCEPT !.currentChild = @ + 1], results, ending,
                              completed, Append(ran, k))

\* SequenceNode::execute
SequenceExecute(node, results) == ExecuteLoop(node, results, "Failure", "Success", << >>)

\* SelectorNode::execute
SelectorExecute(node, results) == ExecuteLoop(node, results, "Success", "Failure", << >>)

\* BehaviorNode::execute of the composite node
execute(node, results) ==
    IF node.kind = "Sequence" THEN SequenceExecute(node, results)
    ELSE SelectorExecute(node, results)

NothingExecuted ==
    [op |-> "none", executes |-> 0, status |-> "none", ran |-> << >>, results |-> << >>,
     start |-> 0, resume |-> 0, resumed |-> 0]

InitTree ==
    /\ MovementIdle
    /\ DmIdle
    /\ MsgIdle
    /\ PathIdle
    /\ LineIdle
    /\ tree \in {NewComposite(kind) : kind \in CompositeKinds}
    /\ trace = NothingExecuted

\* node.addChild(...)
AddChild ==
    /\ Len(tree.children) < MaxChildren
    /\ tree' = addChild(tree)
    /\ trace' = [trace EXCEPT !.op = "addChild"]
    /\ UNCHANGED <<crowdVars, ctlVars, probeVars, dmVars, msgVars, pathVars, lineVars>>

\* node.execute(), the children returning results; trace.resume is the child at which
\* the call has to start by the statuses of the calls before it
Execute(results) ==
    /\ trace.executes < MaxExecutes
    /\ LET r == execute(tree, results)
       IN  /\ tree' = r.node
           /\ trace' = [op |-> "execute", executes |-> trace.executes + 1,
                        status |-> r.status, ran |-> r.ran, results |-> results,
                        start |-> tree.currentChild,
                        resumed |-> trace.resume,
                        resume |-> IF r.status = "Running" THEN r.ran[Len(r.ran)] - 1 ELSE 0]
    /\ UNCHANGED <<crowdVars, ctlVars, probeVars, dmVars, msgVars, pathVars, lineVars>>

\* node.reset() called from outside
Reset ==
    /\ trace.op # "reset"
    /\ tree' = reset(tree)
    /\ trace' = [trace EXCEPT !.op = "reset", !.resume = 0]
    /\ UNCHANGED <<crowdVars, ctlVars, probeVars, dmVars, msgVars, pathVars, lineVars>>

NextTree ==
    \/ AddChild
    \/ \E results \in [1 .. Len(tree.children) -> BehaviorStatus] : Execute(results)
    \/ Reset

SpecTree == InitTree /\ [][NextTree]_vars

----------------------------------------------------------------------------
(* Behavior tree composites: resuming and resetting *)

\* the child status that ends execute at once, and the one that lets it go on
Ending == IF tree.kind = "Sequence" THEN "Failure" ELSE "Success"

Passing == IF tree.kind = "Sequence" THEN "Success" ELSE "Failure"

AllReset == tree.currentChild = 0 /\ \A k \in 1 .. Len(tree.children) : ~tree.children[k].touched

LastRan == trace.ran[Len(trace.ran)]

\* C29: execute runs the children in order from the child at which the previous call
\* returned Running (from the first child otherwise) and runs no earlier child
\* again; a Running child makes it return Running and stay at that child; a Failure
\* (for a selector: Success) makes it return that status, and when all children
\* succeeded (failed) it returns Success (Failure); in both of these cases the node
\* and all children are reset
C29_ResumeAndReset ==
    trace.op = "execute" =>
        /\ trace.start = trace.resumed
        /\ \A j \in 1 .. Len(trace.ran) : trace.ran[j] = trace.start + j
        /\ \A j \in 1 .. Len(trace.ran) - 1 : trace.results[trace.ran[j]] = Passing
        /\ trace.status = "Running" =>
               /\ trace.ran # << >>
               /\ trace.results[LastRan] = "Running"
               /\ tree.currentChild = LastRan - 1
        /\ trace.status = Ending =>
               /\ trace.ran # << >>
               /\ trace.results[LastRan] = Ending
               /\ AllReset
        /\ trace.status = Passing =>
               /\ trace.start + Len(trace.ran) = Len(tree.children)
               /\ \A j \in 1 .. Len(trace.ran) : trace.results[trace.ran[j]] = Passing
               /\ AllReset

\* a sequence resumed at its second child, where the call before had returned
\* Running, ran the rest of its children and returned Success
C29_Witness ==
    /\ trace.op = "execute"
    /\ tree.kind = "Sequence"
    /\ Len(tree.children) = 3
    /\ trace.start = 1
    /\ trace.ran = <<2, 3>>
    /\ trace.status = "Success"
    /\ AllReset

----------------------------------------------------------------------------
(* GridWorld and AStarPathfinder (pathfinding.cpp) *)

GridWidth == 4
GridHeight == 2
MaxWalls == 2
MaxSearches == 1

RECURSIVE Pow2(_)
Pow2(n) == IF n = 0 THEN 1 ELSE 2 * Pow2(n - 1)

\* a float holds 24 significant bits
Significant == Pow2(24)

\* by how many bits the integer p is longer than 24 bits
RECURSIVE ExcessBits(_, _)
ExcessBits(p, s) == IF p \div Pow2(s) >= Significant THEN ExcessBits(p, s + 1) ELSE s

\* the float nearest to the integer p (round to nearest, ties to even)
FloatOf(p) ==
    LET s == ExcessBits(p, 0)
        q == p \div Pow2(s)
        r == p % Pow2(s)
        up == s > 0 /\ (2 * r > Pow2(s) \/ (2 * r = Pow2(s) /\ q % 2 = 1))
    IN  (IF up THEN q + 1 ELSE q) * Pow2(s)

\* floor of the binary logarithm of x >= 1
RECURSIVE Log2(_, _)
Log2(x, k) == IF Pow2(k + 1) <= x THEN Log2(x, k + 1) ELSE k

\* the cell sizes 1.0f and 0.9f: the float's 24-bit significand, in whose last
\* place world coordinates are counted, and its value at scale FP
CellSizeOne == [significand |-> Pow2(23), value |-> FP]

CellSizeNineTenths == [significand |-> 15099494, value |-> (9 * FP) \div 10]

Cell(x, y) == <<x, y>>

\* GridWorld::GridWorld: all cells walkable
NewGridWorld(width, height, size) ==
    [width |-> width, height |-> height, cellSize |-> size,
     walkable |-> (0 .. width - 1) \X (0 .. height - 1), walls |-> 0]

\* GridWorld::isWalkable
isWalkable(w, x, y) ==
    IF x < 0 \/ x >= w.width \/ y < 0 \/ y >= w.height THEN FALSE
    ELSE Cell(x, y) \in w.walkable

\* GridWorld::setWalkable
setWalkable(w, x, y, walkable) ==
    IF x >= 0 /\ x < w.width /\ y >= 0 /\ y < w.height
    THEN [w EXCEPT !.walkable = IF walkable THEN @ \cup {Cell(x, y)} ELSE @ \ {Cell(x, y)},
                   !.walls = @ + 1]
    ELSE [w EXCEPT !.walls = @ + 1]

\* GridWorld::gridToWorld: the float products x * cellSize_ and y * cellSize_
gridToWorld(w, x, y) ==
    [x |-> FloatOf(x * w.cellSize.significand), y |-> FloatOf(y * w.cellSize.significand)]

\* static_cast<int>(c / cellSize_) for a coordinate c >= 0: the float quotient is
\* the integer above the exact quotient when that lies within half a float spacing
\* of it, and is truncated
CellIndex(w, c) ==
    LET m == w.cellSize.significand
        n == c \div m
        gap == m - (c - n * m)
        k == Log2(n + 1, 0)
        shift == IF Pow2(k) = n + 1 THEN 25 - k ELSE 24 - k
    IN  IF gap <= m \div Pow2(shift) THEN n + 1 ELSE n

\* GridWorld::worldToGrid
worldToGrid(w, position) == Cell(CellIndex(w, position.x), CellIndex(w, position.y))

\* a world coordinate at scale FP
Fixed(w, c) == c \div (w.cellSize.significand \div w.cellSize.value)

\* (a - b).magnitude() for two world positions, at scale FP
Distance(w, a, b) ==
    magnitude(Vec(Fixed(w, a.x) - Fixed(w, b.x), Fixed(w, a.y) - Fixed(w, b.y), 0))

\* getNodeKey
getNodeKey(x, y) == y * 10000 + x

\* AStarPathfinder::getNeighbors, in the order of its two loops
getNeighbors(x, y) ==
    <<Cell(x - 1, y - 1), Cell(x - 1, y), Cell(x - 1, y + 1), Cell(x, y - 1),
      Cell(x, y + 1), Cell(x + 1, y - 1), Cell(x + 1, y), Cell(x + 1, y + 1)>>

NoParent == -1

\* Node(pos): gCost(0), parent(nullptr)
NewNode(position) == [position |-> position, gCost |-> 0, parent |-> NoParent]

\* allNodes[key] = node
WithNode(allNodes, key, node) ==
    [k \in DOMAIN allNodes \cup {key} |-> IF k = key THEN node ELSE allNodes[k]]

\* findPath, lines 91-116: the loop over the neighbors of (x, y) from the i-th on;
\* s holds allNodes and openSet, closedSet does not change in the loop
RECURSIVE NeighborLoop(_, _, _, _, _, _, _)
NeighborLoop(w, s, closedSet, current, x, y, i) ==
    IF i > 8 THEN s
    ELSE LET nx == getNeighbors(x, y)[i][1]
             ny == getNeighbors(x, y)[i][2]
             key == getNodeKey(nx, ny)
             allNodes == IF key \in DOMAIN s.allNodes THEN s.allNodes
                         ELSE WithNode(s.allNodes, key, NewNode(gridToWorld(w, nx, ny)))
             neighbor == allNodes[key]
             tentativeGCost == allNodes[current].gCost
                               + Distance(w, allNodes[current].position, neighbor.position)
         IN  IF ~isWalkable(w, nx, ny) THEN NeighborLoop(w, s, closedSet, current, x, y, i + 1)
             ELSE IF key \in closedSet
             THEN NeighborLoop(w, [s EXCEPT !.allNodes = allNodes], closedSet, current,
                               x, y, i + 1)
             ELSE IF neighbor.parent = NoParent \/ tentativeGCost < neighbor.gCost
             THEN NeighborLoop(w,
                      [allNodes |-> WithNode(allNodes, key,
                                        [neighbor EXCEPT !.parent = current,
                                                         !.gCost = tentativeGCost]),
                       openSet |-> s.openSet \cup {key}],
                      closedSet, current, x, y, i + 1)
             ELSE NeighborLoop(w, [s EXCEPT !.allNodes = allNodes], closedSet, current,
                               x, y, i + 1)

\* findPath, lines 79-86: the positions from the start node to node, following parent
RECURSIVE Reconstructed(_, _)
Reconstructed(allNodes, node) ==
    IF node = NoParent THEN << >>
    ELSE Append(Reconstructed(allNodes, allNodes[node].parent), allNodes[node].position)

NoSearch ==
    [phase |-> "idle", start |-> [x |-> 0, y |-> 0], goal |-> [x |-> 0, y |-> 0],
     openSet |-> {}, closedSet |-> {}, allNodes |-> << >>, result |-> << >>, searches |-> 0]

\* the centre of a cell as a world position
CentreOf(w, cell) ==
    [x |-> FloatOf(cell[1] * w.cellSize.significand + w.cellSize.significand \div 2),
     y |-> FloatOf(cell[2] * w.cellSize.significand + w.cellSize.significand \div 2)]

\* the cells setWalkable closes: the third column
WallCells == {Cell(2, 0), Cell(2, 1)}

\* the cells whose centres are passed to findPath as start and as goal; (4, 1) is
\* outside the grid
StartCells == {Cell(0, 1), Cell(2, 1)}

GoalCells == {Cell(3, 1), Cell(1, 0), Cell(4, 1)}

InitPath ==
    /\ MovementIdle
    /\ DmIdle
    /\ MsgIdle
    /\ BtIdle
    /\ LineIdle
    /\ world \in {NewGridWorld(GridWidth, GridHeight, size) :
                     size \in {CellSizeOne, CellSizeNineTenths}}
    /\ path = NoSearch

\* world.setWalkable(x, y, false), the grid being laid out before the pathfinder is
\* used
SetWalkable(cell) ==
    /\ path.phase = "idle"
    /\ world.walls < MaxWalls
    /\ world' = setWalkable(world, cell[1], cell[2], FALSE)
    /\ UNCHANGED <<path, crowdVars, ctlVars, probeVars, dmVars, msgVars, btVars, lineVars>>

\* findPath(start, goal) up to its while loop, lines 43-63
FindPath(start, goal) ==
    /\ path.phase # "searching"
    /\ path.searches < MaxSearches
    /\ LET startCell == worldToGrid(world, start)
           goalCell == worldToGrid(world, goal)
           startKey == getNodeKey(startCell[1], startCell[2])
       IN  IF \/ ~isWalkable(world, startCell[1], startCell[2])
              \/ ~isWalkable(world, goalCell[1], goalCell[2])
           THEN path' = [NoSearch EXCEPT !.phase = "done", !.start = start, !.goal = goal,
                                         !.searches = path.searches + 1]
           ELSE path' = [phase |-> "searching", start |-> start, goal |-> goal,
                         openSet |-> {startKey}, closedSet |-> {},
                         allNodes |->
                             WithNode(<< >>, startKey,
                                 NewNode(gridToWorld(world, startCell[1], startCell[2]))),
                         result |-> << >>, searches |-> path.searches + 1]
    /\ UNCHANGED <<world, crowdVars, ctlVars, probeVars, dmVars, msgVars, btVars, lineVars>>

\* one iteration of the while loop of findPath, lines 65-117, and its end at line
\* 120 when the open set has run empty. The nodes in the priority queue are ordered
\* by fCost keys that change while they are queued, so top() may be any queued node
SearchStep ==
    /\ path.phase = "searching"
    /\ \E current \in path.openSet :
           LET closedSet == path.closedSet \cup {current}
               at == worldToGrid(world, path.allNodes[current].position)
               goalCell == worldToGrid(world, path.goal)
               s == NeighborLoop(world,
                        [allNodes |-> path.allNodes, openSet |-> path.openSet \ {current}],
                        closedSet, current, at[1], at[2], 1)
           IN  IF at = goalCell
               THEN path' = [path EXCEPT !.phase = "done",
                                         !.openSet = @ \ {current},
                                         !.closedSet = closedSet,
                                         !.result = Reconstructed(path.allNodes, current)]
               ELSE path' = [path EXCEPT !.phase = IF s.openSet = {} THEN "done"
                                                   ELSE "searching",
                                         !.openSet = s.openSet,
                                         !.closedSet = closedSet,
                                         !.allNodes = s.allNodes]
    /\ UNCHANGED <<world, crowdVars, ctlVars, probeVars, dmVars, msgVars, btVars, lineVars>>

NextPath ==
    \/ \E cell \in WallCells : SetWalkable(cell)
    \/ \E start \in StartCells, goal \in GoalCells :
           FindPath(CentreOf(world, start), CentreOf(world, goal))
    \/ SearchStep

SpecPath == InitPath /\ [][NextPath]_vars

----------------------------------------------------------------------------
(* AStarPathfinder: the path returned *)

GridCells == (0 .. world.width - 1) \X (0 .. world.height - 1)

Adjacent(a, b) == a # b /\ Abs(a[1] - b[1]) <= 1 /\ Abs(a[2] - b[2]) <= 1

\* the walkable cells that can be reached from the cells of seen through 8-connected
\* walkable cells
RECURSIVE Reached(_)
Reached(seen) ==
    LET more == {c \in world.walkable : \E d \in seen : Adjacent(c, d)} \ seen
    IN  IF more = {} THEN seen ELSE Reached(seen \cup more)

\* the cell of which the waypoint is the world position
WaypointCell(position) ==
    CHOOSE c \in (0 .. world.width) \X (0 .. world.height) :
        gridToWorld(world, c[1], c[2]) = position

StartCell == worldToGrid(world, path.start)

GoalCell == worldToGrid(world, path.goal)

Endpoints == isWalkable(world, StartCell[1], StartCell[2]) /\ isWalkable(world, GoalCell[1], GoalCell[2])

\* C30: findPath returns the empty path when the start or the goal cell is not
\* walkable or out of bounds; otherwise it returns a non-empty path if and only if
\* the goal cell can be reached from the start cell through 8-connected walkable
\* cells, and a returned path begins at the start cell, ends at the goal cell, holds
\* walkable cells only, and its consecutive waypoints are 8-adjacent cells
C30_PathIffReachable ==
    path.phase = "done" =>
        /\ ~Endpoints => path.result = << >>
        /\ Endpoints => (path.result # << >> <=> GoalCell \in Reached({StartCell}))
        /\ path.result # << >> =>
               /\ WaypointCell(path.result[1]) = StartCell
               /\ WaypointCell(path.result[Len(path.result)]) = GoalCell
               /\ \A i \in 1 .. Len(path.result) : WaypointCell(path.result[i]) \in world.walkable
               /\ \A i \in 1 .. Len(path.result) - 1 :
                      Adjacent(WaypointCell(path.result[i]), WaypointCell(path.result[i + 1]))

====
